---- MODULE Spec2Model ----
(***************************************************************************)
(* Model of the answer-ranking engine of src/bot.ts (pairwiseJudge,        *)
(* directRank) and of the part of processPendingChallenges that calls it,  *)
(* validates its result and posts the vote.                                *)
(*                                                                         *)
(* A candidate (AnswerEntry) is represented by its id: the content only    *)
(* goes into the prompt text and never into a result.  The oracle (askLLM  *)
(* followed by JSON.parse) is the environment: each call returns one of    *)
(* the outcomes the code distinguishes.                                    *)
(*                                                                         *)
(* Further specifications: SpecTournament (pairwiseJudge over more than    *)
(* three candidates), SpecMain (mainLoop of src/bot.ts, each function it   *)
(* awaits being one step) and SpecRegister (the retry loop of main and     *)
(* evaluateWithOllama in the registration script, src/unnamed/part_000).   *)
(***************************************************************************)
EXTENDS Integers, Sequences, FiniteSets, TLC

(* ------------------------------ bounds --------------------------------- *)

\* pairwiseJudge: n <= 3 goes to directRank
DirectMax == 3

\* bot.ts: no question is submitted once this many have been
MAX_QUERIES_PER_SESSION == 3

\* bot.ts: the balance below which no question is submitted
MIN_ENERGY_FOR_QUERY == 50

\* registration script, main: attempts per run
MAX_RETRIES == 3

\* largest number of candidates in one round
MaxN == 4
\* longest answer_rankings list an oracle response carries
MaxRanked == 3
\* longest good_answers list an oracle response carries
MaxGood == 2
\* number of cycles of mainLoop that are followed
MaxCycles == 5
\* largest number of challenges a registration response carries
MaxChallenges == 2
\* longest QUERY_QUEUE that is followed
MaxQueue == 2

(* ------------------------------- ids ----------------------------------- *)

\* Ids are strings.  "1" and "2" are canonical array-index strings, which a
\* JavaScript object enumerates first and in ascending numeric order; "a",
\* "b" and "c" are ordinary strings, enumerated in insertion order.
IndexIds == {"1", "2"}
NameIds == {"a", "b", "c"}
Ids == IndexIds \cup NameIds
\* an id the oracle may return and no candidate carries
ForeignId == "zz"

IndexValue(id) == IF id = "1" THEN 1 ELSE 2

(* ----------------------------- sequences ------------------------------- *)

Range(s) == {s[i] : i \in 1..Len(s)}

SeqsUpTo(S, n) == UNION {[1..k -> S] : k \in 0..n}

\* Array.prototype.includes
Includes(s, x) == \E i \in 1..Len(s) : s[i] = x

IsDistinct(s) == \A i, j \in 1..Len(s) : i # j => s[i] # s[j]

\* the elements of s, each at its first occurrence: the iteration order of
\* new Set(s)
RECURSIVE SetOrderFrom(_, _)
SetOrderFrom(s, acc) ==
  IF s = <<>> THEN acc
  ELSE SetOrderFrom(Tail(s),
         IF Includes(acc, Head(s)) THEN acc ELSE Append(acc, Head(s)))

SetOrder(s) == SetOrderFrom(s, <<>>)

\* Array.prototype.slice(0, k)
Slice(s, k) == SubSeq(s, 1, IF k < Len(s) THEN k ELSE Len(s))

\* Math.ceil(n / 2)
CeilHalf(n) == (n + 1) \div 2

Max(a, b) == IF a >= b THEN a ELSE b

(* ------------------------------ oracle --------------------------------- *)

NoResp == [kind |-> "none"]

\* A field of the parsed response: missing or falsy ("absent"), a truthy
\* value that is no list ("nonlist": a number, true, an object), or a list.
Absent == [t |-> "absent", v |-> <<>>]
NonList == [t |-> "nonlist", v |-> <<>>]
ListOf(l) == [t |-> "list", v |-> l]

\* ids an oracle can name in a round over the candidates s
RespIds(s) == Range(s) \cup {ForeignId}

RankedFields(s) == {Absent, NonList} \cup {ListOf(l) : l \in SeqsUpTo(RespIds(s), MaxRanked)}
GoodFields(s) == {Absent, NonList} \cup {ListOf(l) : l \in SeqsUpTo(RespIds(s), MaxGood)}

\* What one ranking call can come back with: askLLM throws ("fail"), the
\* text is no JSON ("nonjson"), the JSON is null ("null"), or the JSON is a
\* value whose two fields are as given (a scalar or an array has neither).
RankResponses(s) ==
  {[kind |-> "fail"], [kind |-> "nonjson"], [kind |-> "null"]}
    \cup {[kind |-> "json", ranked |-> r, good |-> g] :
            r \in RankedFields(s), g \in GoodFields(s)}

\* What one comparison call can come back with: as above, and for a JSON
\* value its winner field: "A", "B", "tie" or anything else ("other").
CompareResponses ==
  {[kind |-> "fail"], [kind |-> "nonjson"], [kind |-> "null"]}
    \cup {[kind |-> "json", winner |-> w] : w \in {"A", "B", "tie", "other"}}

(* ---------------------------- directRank ------------------------------- *)

\* the catch block of directRank, and the n <= 1 return of pairwiseJudge:
\* answers.map(a => a.id) twice
IdentityResult(s) == [rankings |-> s, goodAnswers |-> s]

\* PushRanked without the !finalRankings.includes(id) test
RECURSIVE PushRankedNoDedupe(_, _, _)
PushRankedNoDedupe(l, allIds, acc) ==
  IF l = <<>> THEN acc
  ELSE PushRankedNoDedupe(Tail(l), allIds,
         IF Head(l) \in allIds THEN Append(acc, Head(l)) ELSE acc)

\* first loop of directRank: the known ids of the oracle's list, each at
\* its first occurrence
RECURSIVE PushRanked(_, _, _)
PushRanked(l, allIds, acc) ==
  IF l = <<>> THEN acc
  ELSE PushRanked(Tail(l), allIds,
         IF Head(l) \in allIds /\ ~Includes(acc, Head(l))
         THEN Append(acc, Head(l)) ELSE acc)

\* PushMissing without its loop: omitted ids stay omitted
PushMissingNone(order, acc) == acc

\* second loop of directRank: the ids of allIds (in the Set's order) that
\* are not ranked yet
RECURSIVE PushMissing(_, _)
PushMissing(order, acc) ==
  IF order = <<>> THEN acc
  ELSE PushMissing(Tail(order),
         IF Includes(acc, Head(order)) THEN acc ELSE Append(acc, Head(order)))

FinalRankings(s, rankedIds) ==
  PushMissing(SetOrder(s), PushRanked(rankedIds, Range(s), <<>>))

\* ValidGood without the filter
ValidGoodUnfiltered(s, goodIds) == goodIds

\* goodIds.filter(id => allIds.has(id))
ValidGood(s, goodIds) == SelectSeq(goodIds, LAMBDA id : id \in Range(s))

\* the value of an array read past its end
Undefined == "undefined"

\* finalRankings[0]
First(l) == IF Len(l) > 0 THEN l[1] ELSE Undefined

\* FinalGood without the default
FinalGoodNoDefault(s, goodIds, finalRankings) == ValidGood(s, goodIds)

\* FinalGood defaulting to every ranked id
FinalGoodAll(s, goodIds, finalRankings) ==
  IF Len(ValidGood(s, goodIds)) > 0 THEN ValidGood(s, goodIds)
  ELSE finalRankings

\* validGood.length > 0 ? validGood : [finalRankings[0]]
FinalGood(s, goodIds, finalRankings) ==
  IF Len(ValidGood(s, goodIds)) > 0 THEN ValidGood(s, goodIds)
  ELSE <<First(finalRankings)>>

\* whether the try block of directRank throws on this response: askLLM
\* threw, JSON.parse threw, a property of null was read, for..of met a value
\* that is not iterable, or .filter was called on a value that is no array
DirectThrows(resp) ==
  \/ resp.kind \in {"fail", "nonjson", "null"}
  \/ resp.kind = "json" /\ (resp.ranked.t = "nonlist" \/ resp.good.t = "nonlist")

\* the value the try block of directRank returns when it does not throw
DirectTry(s, resp) ==
  LET finalRankings == FinalRankings(s, resp.ranked.v)
  IN  [rankings |-> finalRankings,
       goodAnswers |-> FinalGood(s, resp.good.v, finalRankings)]

\* DirectCatch rethrowing what it caught
DirectCatchRethrow(s) == [thrown |-> TRUE] @@ IdentityResult(s)

\* DirectCatch marking only the first candidate good
DirectCatchFirstGood(s) ==
  [thrown |-> FALSE, rankings |-> s, goodAnswers |-> <<First(s)>>]

\* the catch block of directRank: the fallback result, nothing rethrown
DirectCatch(s) == [thrown |-> FALSE] @@ IdentityResult(s)

\* directRank: [thrown, rankings, goodAnswers]
DirectRank(s, resp) ==
  IF DirectThrows(resp) THEN DirectCatch(s)
  ELSE [thrown |-> FALSE] @@ DirectTry(s, resp)

(* --------------------------- pairwiseJudge ----------------------------- *)

\* IsTrivial letting a single candidate through to the oracle
IsTrivialEmptyOnly(n) == n < 1

\* if (n <= 1) return the identity result
IsTrivial(n) == n <= 1

\* IsDirect sending only two candidates to directRank
IsDirectPairOnly(n) == n <= 2

\* if (n <= 3) return await directRank(...)
IsDirect(n) == n <= DirectMax

\* Pairs pushing the neighbour pair twice
PairsNeighbourTwice(n) ==
  [k \in 1..(2 * n) |-> <<(k - 1) \div 2, ((k - 1) \div 2 + 1) % n>>]

\* the schedule, as 0-based index pairs: [i, (i+1) % n], [i, (i+2) % n]
Pairs(n) ==
  [k \in 1..(2 * n) |->
     LET i == (k - 1) \div 2
     IN  IF k % 2 = 1 THEN <<i, (i + 1) % n>> ELSE <<i, (i + 2) % n>>]

\* index keys in ascending numeric order
RECURSIVE IndexKeysAsc(_)
IndexKeysAsc(S) ==
  IF S = {} THEN <<>>
  ELSE LET m == CHOOSE x \in S : \A y \in S : IndexValue(x) <= IndexValue(y)
       IN  <<m>> \o IndexKeysAsc(S \ {m})

\* the order in which an object enumerates the keys assigned to it in the
\* order of s: index keys ascending, then the other keys in the order they
\* were first assigned
EntriesOrder(s) ==
  IndexKeysAsc(Range(s) \cap IndexIds)
    \o SelectSeq(SetOrder(s), LAMBDA id : id \notin IndexIds)

\* winCounts after answers.forEach((a) => (winCounts[a.id] = 0)): the
\* object is represented by its entries, in the order Object.entries
\* gives them
ZeroCounts(s) ==
  [i \in 1..Len(EntriesOrder(s)) |-> [id |-> EntriesOrder(s)[i], wins |-> 0]]

\* Increment adding 2
IncrementTwo(wc, id) ==
  [i \in 1..Len(wc) |-> IF wc[i].id = id THEN [wc[i] EXCEPT !.wins = @ + 2] ELSE wc[i]]

\* winCounts[id]++
Increment(wc, id) ==
  [i \in 1..Len(wc) |-> IF wc[i].id = id THEN [wc[i] EXCEPT !.wins = @ + 1] ELSE wc[i]]

\* Tally with a bare else: every winner but "A" counts for b
TallyElseB(wc, a, b, resp) ==
  IF resp.kind = "json" /\ resp.winner = "A" THEN Increment(wc, a)
  ELSE IF resp.kind = "json" THEN Increment(wc, b)
  ELSE wc

\* the effect of one comparison on winCounts; every throw inside the try is
\* swallowed by catch {}
Tally(wc, a, b, resp) ==
  IF resp.kind = "json" /\ resp.winner = "A" THEN Increment(wc, a)
  ELSE IF resp.kind = "json" /\ resp.winner = "B" THEN Increment(wc, b)
  ELSE wc

\* SortedPosition letting a later entry of equal count go first
SortedPositionUnstable(entries, i) ==
  1 + Cardinality({j \in 1..Len(entries) :
        \/ entries[j].wins > entries[i].wins
        \/ entries[j].wins = entries[i].wins /\ j > i})

\* SortedPosition for the comparator a - b
SortedPositionAscending(entries, i) ==
  1 + Cardinality({j \in 1..Len(entries) :
        \/ entries[j].wins < entries[i].wins
        \/ entries[j].wins = entries[i].wins /\ j < i})

\* where entries[i] stands after the sort by descending count: behind the
\* entries of greater count and, the sort being stable, behind the earlier
\* entries of equal count
SortedPosition(entries, i) ==
  1 + Cardinality({j \in 1..Len(entries) :
        \/ entries[j].wins > entries[i].wins
        \/ entries[j].wins = entries[i].wins /\ j < i})

\* entries.sort(([, a], [, b]) => b - a)
SortDesc(entries) ==
  [p \in 1..Len(entries) |->
     entries[CHOOSE i \in 1..Len(entries) : SortedPosition(entries, i) = p]]

\* Object.entries(winCounts).sort(([, a], [, b]) => b - a).map(([id]) => id)
Sorted(wc) == [p \in 1..Len(wc) |-> SortDesc(wc)[p].id]

\* GoodCount without the halving
GoodCountWhole(sorted) == Max(1, Len(sorted))

\* Math.max(1, Math.ceil(sorted.length / 2))
GoodCount(sorted) == Max(1, CeilHalf(Len(sorted)))

TournamentResult(wc) ==
  LET sorted == Sorted(wc)
  IN  [rankings |-> sorted, goodAnswers |-> Slice(sorted, GoodCount(sorted))]

(* ------------------------------- state --------------------------------- *)

VARIABLES
  answers,      \* the ids of the candidates of the round, in input order
  pc,           \* where pairwiseJudge stands
  pairIdx,      \* position in the schedule of the pair compared next
  winCounts,    \* the entries of the win tally of the tournament path
  oracleLog,    \* the oracle calls issued so far in the round
  resp,         \* what the oracle call awaited last came back with
  onlyFailures, \* no oracle call of the round has come back without failing
  rankings,     \* returned rankings
  goodAnswers,  \* returned goodAnswers
  cpc,          \* where processPendingChallenges stands with the challenge
  votes,        \* the bodies posted to /rankings/votes
  judgedChallengeIds,
  mpc,          \* where mainLoop stands
  cycleCount,
  accessToken,
  requests,     \* the HTTP requests issued so far, as method and path
  called,       \* the functions mainLoop has called so far
  queriesAskedThisSession,
  submittedQueryIds,
  QUERY_QUEUE,
  spc,          \* where main of the registration script stands
  keySet,       \* ANTHROPIC_API_KEY has been filled in
  attempt,
  attemptLog,   \* how each attempt made so far has ended
  challenges,   \* the ids of the challenges of the attempt, as received
  idx,          \* i of evaluateWithOllama, counted from 1
  epc,          \* which askOllama call of challenge i is awaited
  regAnswers,   \* answers of evaluateWithOllama
  llmLog,       \* per challenge, how its askOllama calls have ended
  llm,          \* what the last askOllama call came back with
  refreshToken,
  apc,          \* where apiRequest stands
  apiAttempt,   \* attempt of apiRequest's loop
  headers,      \* the Authorization value of apiRequest's headers
  apiLog,       \* the attempts of the request sent so far and how each went
  apiResult,    \* what apiRequest returned
  answeredQueryIds,
  sfun,         \* which of the two scans of a cycle is running
  remaining,    \* how many items of the list fetched are still to be scanned
  scanned,      \* the item scanned last, the requests made for it, its end
  okVotes,      \* the challenge ids with a vote the server answered 2xx
  okAnswers,    \* the query ids with an answer the server answered 2xx
  posted,       \* the votes and the answers posted in the cycle
  plan,         \* what the oracle answers to the calls of a round, in order
  first,        \* what the first of two rounds came back with
  qpc,          \* where submitNextQuery stands
  qcall         \* the call of submitNextQuery made last: what it found, how it went

engine == <<answers, pc, pairIdx, winCounts, oracleLog, resp, onlyFailures,
            rankings, goodAnswers>>
caller == <<cpc, votes, judgedChallengeIds>>
loop == <<mpc, cycleCount, accessToken, requests, called,
          queriesAskedThisSession, submittedQueryIds, QUERY_QUEUE>>
script == <<spc, keySet, attempt, attemptLog, challenges, idx, epc,
            regAnswers, llmLog, llm>>
api == <<refreshToken, apc, apiAttempt, headers, apiLog, apiResult>>
scan == <<answeredQueryIds, sfun, remaining, scanned, okVotes, okAnswers,
          posted>>
replay == <<plan, first>>
submit == <<qpc, qcall>>
vars == <<engine, caller, loop, script, api, scan, replay, submit>>

\* The code only tests the ids of NameIds for equality, so a candidate list
\* is taken up to their renaming: its names are "a", then "b", then "c" in
\* the order they first occur.
NameOrder == <<"a", "b", "c">>

Canonical(s) ==
  LET names == SelectSeq(SetOrder(s), LAMBDA id : id \in NameIds)
  IN  names = SubSeq(NameOrder, 1, Len(names))

\* The candidate lists of the model: every list of distinct ids, and every
\* list with repeated ids that is short enough for the direct path.
CandidateLists ==
  {s \in SeqsUpTo(Ids, MaxN) :
     Canonical(s) /\ (IsDistinct(s) \/ Len(s) <= DirectMax)}

\* the round's variables before pairwiseJudge is called
RoundIdle(s) ==
  /\ answers = s
  /\ pairIdx = 0
  /\ winCounts = <<>>
  /\ oracleLog = <<>>
  /\ resp = NoResp
  /\ onlyFailures = TRUE
  /\ rankings = <<>>
  /\ goodAnswers = <<>>

\* the one entry QUERY_QUEUE is declared with
QueuedQuestion == "Your question here"

\* the module-level state of bot.ts as declared, and cycleCount before the
\* loop
Declared ==
  /\ cycleCount = 0
  /\ accessToken = "null"
  /\ requests = {}
  /\ called = {}
  /\ queriesAskedThisSession = 0
  /\ submittedQueryIds = {}
  /\ QUERY_QUEUE = <<QueuedQuestion>>

\* mainLoop not running
LoopIdle == mpc = "none" /\ Declared

NoLlm == [kind |-> "none"]

\* the locals of evaluateWithOllama when it is not running
EvaluateIdle ==
  /\ challenges = <<>>
  /\ idx = 0
  /\ epc = "none"
  /\ regAnswers = <<>>
  /\ llmLog = <<>>
  /\ llm = NoLlm

\* apiRequest is not running
NoResult == [none |-> TRUE]
ApiIdle ==
  /\ refreshToken = ""
  /\ apc = "none"
  /\ apiAttempt = 0
  /\ headers = ""
  /\ apiLog = <<>>
  /\ apiResult = NoResult

\* ids of pending challenges
PendingIds == {"ch1", "ch2"}

\* ids of active queries
ActiveIds == {"q1", "q2"}

\* no item has been scanned
NoScan == [fun |-> "none", item |-> <<>>, issued |-> <<>>, end |-> "none"]

\* neither scan is running and the session's sets are empty
ScanIdle ==
  /\ answeredQueryIds = {}
  /\ sfun = "idle"
  /\ remaining = 0
  /\ scanned = NoScan
  /\ okVotes = {}
  /\ okAnswers = {}
  /\ posted = [votes |-> 0, answers |-> 0]

\* no round has come back yet
NoMemo == [none |-> TRUE]

\* no second round is run
ReplayIdle == plan = <<>> /\ first = NoMemo

\* submitNextQuery has not been called
NoCall == [none |-> TRUE]
SubmitIdle == qpc = "idle" /\ qcall = NoCall

\* the registration script not running
ScriptIdle ==
  /\ spc = "none"
  /\ keySet = FALSE
  /\ attempt = 0
  /\ attemptLog = <<>>
  /\ EvaluateIdle

\* pairwiseJudge called on its own with some candidate list
Init ==
  /\ \E s \in CandidateLists : RoundIdle(s)
  /\ pc = "call"
  /\ cpc = "none"
  /\ votes = <<>>
  /\ judgedChallengeIds = {}
  /\ LoopIdle
  /\ ScriptIdle
  /\ ApiIdle
  /\ ScanIdle
  /\ SubmitIdle
  /\ ReplayIdle

Return(r) ==
  /\ pc' = IF r.thrown THEN "thrown" ELSE "returned"
  /\ rankings' = r.rankings
  /\ goodAnswers' = r.goodAnswers

Failed(r) == r.kind = "fail"

\* n <= 1: the identity result, no oracle call
Trivial ==
  /\ pc = "call"
  /\ IsTrivial(Len(answers))
  /\ Return([thrown |-> FALSE] @@ IdentityResult(answers))
  /\ UNCHANGED <<answers, pairIdx, winCounts, oracleLog, resp, onlyFailures>>
  /\ UNCHANGED caller
  /\ UNCHANGED <<loop, script, api, scan, replay, submit>>

\* n <= 3: directRank builds the prompt over all candidates and awaits askLLM
DirectIssue ==
  /\ pc = "call"
  /\ ~IsTrivial(Len(answers))
  /\ IsDirect(Len(answers))
  /\ pc' = "awaitRank"
  /\ oracleLog' = Append(oracleLog, [call |-> "rank", ids |-> answers])
  /\ UNCHANGED <<answers, pairIdx, winCounts, resp, onlyFailures, rankings, goodAnswers>>
  /\ UNCHANGED caller
  /\ UNCHANGED <<loop, script, api, scan, replay, submit>>

\* the ranking call comes back with r; directRank returns
DirectReturnWith(r) ==
  /\ pc = "awaitRank"
  /\ resp' = r
  /\ onlyFailures' = (onlyFailures /\ Failed(r))
  /\ Return(DirectRank(answers, r))
  /\ UNCHANGED <<answers, pairIdx, winCounts, oracleLog>>
  /\ UNCHANGED caller
  /\ UNCHANGED <<loop, script, api, scan, replay, submit>>

\* the ranking call comes back with whatever the oracle answers
DirectReturn ==
  /\ pc = "awaitRank"
  /\ \E r \in RankResponses(answers) : DirectReturnWith(r)

\* TournamentStart going on from where the schedule of the round before ended
TournamentStartKeepsIndex ==
  /\ pc = "call"
  /\ ~IsTrivial(Len(answers))
  /\ ~IsDirect(Len(answers))
  /\ winCounts' = ZeroCounts(answers)
  /\ pairIdx' = IF pairIdx = 0 THEN 1 ELSE pairIdx
  /\ pc' = "pairs"
  /\ UNCHANGED <<answers, oracleLog, resp, onlyFailures, rankings, goodAnswers>>
  /\ UNCHANGED caller
  /\ UNCHANGED <<loop, script, api, scan, replay, submit>>

\* n >= 4: zeroed tally and the schedule
TournamentStart ==
  /\ pc = "call"
  /\ ~IsTrivial(Len(answers))
  /\ ~IsDirect(Len(answers))
  /\ winCounts' = ZeroCounts(answers)
  /\ pairIdx' = 1
  /\ pc' = "pairs"
  /\ UNCHANGED <<answers, oracleLog, resp, onlyFailures, rankings, goodAnswers>>
  /\ UNCHANGED caller
  /\ UNCHANGED <<loop, script, api, scan, replay, submit>>

\* PairIssue without the await: the call is sent and the loop goes on
PairIssueNoAwait ==
  /\ pc = "pairs"
  /\ pairIdx <= 2 * Len(answers)
  /\ LET p == Pairs(Len(answers))[pairIdx]
     IN  oracleLog' =
           IF p[1] = p[2] THEN oracleLog
           ELSE Append(oracleLog,
                  [call |-> "compare", ids |-> <<answers[p[1] + 1], answers[p[2] + 1]>>])
  /\ pairIdx' = pairIdx + 1
  /\ resp' = NoResp
  /\ UNCHANGED <<answers, pc, winCounts, onlyFailures, rankings, goodAnswers>>
  /\ UNCHANGED caller
  /\ UNCHANGED <<loop, script, api, scan, replay, submit>>

\* one iteration of the loop over pairs, up to its await: a pair of equal
\* indices is skipped, any other is sent to the oracle
PairIssue ==
  /\ pc = "pairs"
  /\ pairIdx <= 2 * Len(answers)
  /\ LET p == Pairs(Len(answers))[pairIdx]
     IN  IF p[1] = p[2]
         THEN /\ pairIdx' = pairIdx + 1
              /\ UNCHANGED <<pc, oracleLog>>
         ELSE /\ pc' = "awaitCompare"
              /\ oracleLog' = Append(oracleLog,
                   [call |-> "compare", ids |-> <<answers[p[1] + 1], answers[p[2] + 1]>>])
              /\ UNCHANGED pairIdx
  /\ resp' = NoResp
  /\ UNCHANGED <<answers, winCounts, onlyFailures, rankings, goodAnswers>>
  /\ UNCHANGED caller
  /\ UNCHANGED <<loop, script, api, scan, replay, submit>>

\* the comparison call comes back; the tally is updated and the loop goes on
PairReturn ==
  /\ pc = "awaitCompare"
  /\ LET p == Pairs(Len(answers))[pairIdx]
     IN  \E r \in CompareResponses :
           /\ resp' = r
           /\ onlyFailures' = (onlyFailures /\ Failed(r))
           /\ winCounts' = Tally(winCounts, answers[p[1] + 1], answers[p[2] + 1], r)
  /\ pairIdx' = pairIdx + 1
  /\ pc' = "pairs"
  /\ UNCHANGED <<answers, oracleLog, rankings, goodAnswers>>
  /\ UNCHANGED caller
  /\ UNCHANGED <<loop, script, api, scan, replay, submit>>

\* after the loop: sort, take the top half, return
TournamentReturn ==
  /\ pc = "pairs"
  /\ pairIdx > 2 * Len(answers)
  /\ Return([thrown |-> FALSE] @@ TournamentResult(winCounts))
  /\ UNCHANGED <<answers, pairIdx, winCounts, oracleLog, resp, onlyFailures>>
  /\ UNCHANGED caller
  /\ UNCHANGED <<loop, script, api, scan, replay, submit>>

PairwiseJudge ==
  \/ Trivial
  \/ DirectIssue
  \/ DirectReturn
  \/ TournamentStart
  \/ PairIssue
  \/ PairReturn
  \/ TournamentReturn

Next == PairwiseJudge

Spec == Init /\ [][Next]_vars

\* pairwiseJudge called with more than three candidates: the tournament
InitTournament == Init /\ ~IsDirect(Len(answers))

Tournament ==
  \/ TournamentStart
  \/ PairIssue
  \/ PairReturn
  \/ TournamentReturn

SpecTournament == InitTournament /\ [][Tournament]_vars

(* ---------------------- processPendingChallenges ----------------------- *)

\* the challenge the scan stands at
ChallengeId == "ch"

\* RankingValid comparing the length with answerEntries.length only
RankingValidLengthOnly(s, r) == Len(r) = Len(s)

\* the first check before the vote: rankings.length === allIds.size and
\* every id of allIds is in rankings
RankingValid(s, r) ==
  /\ Len(r) = Cardinality(Range(s))
  /\ \A id \in Range(s) : id \in Range(r)

\* the second check: no good id outside allIds
GoodValid(s, g) == ~(\E i \in 1..Len(g) : g[i] \notin Range(s))

VoteBody(r, g) ==
  [challenge_id |-> ChallengeId, answer_rankings |-> r, good_answers |-> g]

\* the challenge has been joined and its answers are requested
InitJudge ==
  /\ RoundIdle(<<>>)
  /\ pc = "idle"
  /\ cpc = "fetch"
  /\ votes = <<>>
  /\ judgedChallengeIds = {}
  /\ LoopIdle
  /\ ScriptIdle
  /\ ApiIdle
  /\ ScanIdle
  /\ SubmitIdle
  /\ ReplayIdle

\* GET .../answers comes back: an error or an empty list ends the challenge,
\* any other list becomes answerEntries and is handed to pairwiseJudge (the
\* query detail fetched in between only feeds the prompt text)
FetchAnswers ==
  /\ cpc = "fetch"
  /\ \/ /\ cpc' = "fetchFailed"
        /\ UNCHANGED <<answers, pc>>
     \/ \E s \in CandidateLists :
          /\ answers' = s
          /\ IF Len(s) = 0
             THEN cpc' = "noAnswers" /\ UNCHANGED pc
             ELSE cpc' = "judging" /\ pc' = "call"
  /\ UNCHANGED <<pairIdx, winCounts, oracleLog, resp, onlyFailures, rankings, goodAnswers>>
  /\ UNCHANGED <<votes, judgedChallengeIds>>
  /\ UNCHANGED <<loop, script, api, scan, replay, submit>>

\* pairwiseJudge has returned (its locals are gone, its result is held in
\* rankings and goodAnswers): the two checks, then the vote is posted
Validate ==
  /\ cpc = "judging"
  /\ pc = "returned"
  /\ IF RankingValid(answers, rankings) /\ GoodValid(answers, goodAnswers)
     THEN /\ votes' = Append(votes, VoteBody(rankings, goodAnswers))
          /\ cpc' = "voting"
     ELSE /\ cpc' = "rejected"
          /\ UNCHANGED votes
  /\ pc' = "idle"
  /\ pairIdx' = 0
  /\ winCounts' = <<>>
  /\ oracleLog' = <<>>
  /\ resp' = NoResp
  /\ onlyFailures' = TRUE
  /\ UNCHANGED <<answers, rankings, goodAnswers, judgedChallengeIds>>
  /\ UNCHANGED <<loop, script, api, scan, replay, submit>>

\* POST /rankings/votes comes back; the scan ends either way
VoteReturn ==
  /\ cpc = "voting"
  /\ \E error \in BOOLEAN :
       judgedChallengeIds' =
         IF error THEN judgedChallengeIds ELSE judgedChallengeIds \cup {ChallengeId}
  /\ cpc' = "done"
  /\ UNCHANGED votes
  /\ UNCHANGED engine
  /\ UNCHANGED <<loop, script, api, scan, replay, submit>>

NextJudge ==
  \/ FetchAnswers
  \/ PairwiseJudge
  \/ Validate
  \/ VoteReturn

SpecJudge == InitJudge /\ [][NextJudge]_vars

(* ------------------------------ mainLoop ------------------------------- *)

Req(m, p) == [method |-> m, path |-> p]

LoginReq == Req("POST", "/auth/login")
RefreshReq == Req("POST", "/auth/refresh")
BalanceReq == Req("GET", "/economy/balance/:agent")
SubmitReq == Req("POST", "/queries")

\* the requests a function can issue, in the order it first issues them
PendingChain ==
  <<Req("GET", "/rankings/pending/:agent"),
    Req("GET", "/rankings/challenges/:id/eligibility/:agent"),
    BalanceReq,
    Req("POST", "/rankings/challenges/:id/join"),
    Req("GET", "/rankings/challenges/:id/answers"),
    Req("GET", "/queries/:id"),
    Req("POST", "/rankings/votes")>>

ActiveChain ==
  <<Req("GET", "/queries/active"),
    BalanceReq,
    Req("POST", "/queries/:id/join"),
    Req("GET", "/queries/:id"),
    Req("POST", "/queries/:id/answers")>>

SubmittedChain ==
  <<Req("GET", "/queries/:id"),
    Req("GET", "/rankings/queries/:id/result"),
    Req("GET", "/answers/:id")>>

BalanceChain == <<BalanceReq>>

RankChain == <<Req("GET", "/economy/ranks/:agent")>>

\* what a function has issued when it stops after some of its requests
PrefixSets(chain) == {Range(SubSeq(chain, 1, k)) : k \in 1..Len(chain)}

\* the values data.tokens.access_token can have: a token, or a falsy value
TokenValues == {"tok", ""}

\* !accessToken
Falsy(token) == token \in {"null", ""}

\* doLogin: the tokens are stored and true returned, or false returned; it
\* never throws
DoLogin(token) ==
  {[ok |-> TRUE, token |-> v, issued |-> {LoginReq}] : v \in TokenValues}
    \cup {[ok |-> FALSE, token |-> token, issued |-> {LoginReq}]}

\* doRefreshToken: as doLogin; without a refresh token nothing is sent
DoRefreshToken(token) ==
  {[ok |-> TRUE, token |-> v, issued |-> {RefreshReq}] : v \in TokenValues}
    \cup {[ok |-> FALSE, token |-> token, issued |-> s] : s \in {{}, {RefreshReq}}}

\* the refresh, and the login if it fails
RefreshOrLogin(token) ==
  {r \in DoRefreshToken(token) : r.ok}
    \cup {[ok |-> l.ok, token |-> l.token, issued |-> r.issued \cup l.issued] :
            r \in {x \in DoRefreshToken(token) : ~x.ok}, l \in DoLogin(token)}

\* ensureAuth
EnsureAuth(token) ==
  IF Falsy(token) THEN DoLogin(token)
  ELSE {[ok |-> TRUE, token |-> token, issued |-> {}]} \cup RefreshOrLogin(token)

\* what apiRequest does about tokens while a function runs: nothing, or on
\* a 401 the refresh and, if that fails, the login (its result is ignored)
Reauth(token) ==
  {[token |-> token, issued |-> {}]}
    \cup {[token |-> r.token, issued |-> r.issued] : r \in RefreshOrLogin(token)}

\* ids the server gives to submitted queries
QueryIds == {"q1", "q2"}

\* A function that only issues requests: it stops after any of them, by
\* returning or by throwing (a response body of JSON null makes the next
\* property read throw).
Requesting(chain, token, asked, queue, submitted) ==
  {[thrown |-> th, issued |-> s \cup a.issued, token |-> a.token,
    asked |-> asked, queue |-> queue, submitted |-> submitted] :
      th \in BOOLEAN, s \in PrefixSets(chain), a \in Reauth(token)}

\* checkSubmittedQueries: each submitted query is looked up; those found
\* completed, cancelled or refunded are deleted from submittedQueryIds
CheckSubmittedQueries(token, asked, queue, submitted) ==
  {[thrown |-> th, issued |-> s \cup a.issued, token |-> a.token,
    asked |-> asked, queue |-> queue, submitted |-> left] :
      th \in BOOLEAN, s \in PrefixSets(SubmittedChain), a \in Reauth(token),
      left \in SUBSET submitted}

\* submitNextQuery
SubmitNextQuery(token, asked, queue, submitted) ==
  IF asked >= MAX_QUERIES_PER_SESSION \/ Len(queue) = 0
  THEN {[thrown |-> FALSE, issued |-> {}, token |-> token,
         asked |-> asked, queue |-> queue, submitted |-> submitted]}
  ELSE \* checkBalance throws, or gives no or too small a balance
       {[thrown |-> th, issued |-> {BalanceReq} \cup a.issued, token |-> a.token,
         asked |-> asked, queue |-> queue, submitted |-> submitted] :
           th \in BOOLEAN, a \in Reauth(token)}
       \* POST /queries answers with an error: the question is put back
       \cup {[thrown |-> FALSE, issued |-> {BalanceReq, SubmitReq} \cup a.issued,
              token |-> a.token, asked |-> asked, queue |-> queue,
              submitted |-> submitted] : a \in Reauth(token)}
       \* POST /queries answers with JSON null: res._error throws
       \cup {[thrown |-> TRUE, issued |-> {BalanceReq, SubmitReq} \cup a.issued,
              token |-> a.token, asked |-> asked, queue |-> Tail(queue),
              submitted |-> submitted] : a \in Reauth(token)}
       \* POST /queries succeeds
       \cup {[thrown |-> FALSE, issued |-> {BalanceReq, SubmitReq} \cup a.issued,
              token |-> a.token, asked |-> asked + 1, queue |-> Tail(queue),
              submitted |-> submitted \cup {id}] :
                a \in Reauth(token), id \in QueryIds}

\* the functions mainLoop or a variant of it can call in its try block
WorkCalls ==
  {"processPendingChallenges", "processActiveQueries", "checkSubmittedQueries",
   "checkBalance", "checkRank", "submitNextQuery"}

\* the ways a call can end
Outcomes(call, token, asked, queue, submitted) ==
  CASE call = "processPendingChallenges" ->
         Requesting(PendingChain, token, asked, queue, submitted)
    [] call = "processActiveQueries" ->
         Requesting(ActiveChain, token, asked, queue, submitted)
    [] call = "checkBalance" ->
         Requesting(BalanceChain, token, asked, queue, submitted)
    [] call = "checkRank" ->
         Requesting(RankChain, token, asked, queue, submitted)
    [] call = "checkSubmittedQueries" ->
         CheckSubmittedQueries(token, asked, queue, submitted)
    [] call = "submitNextQuery" ->
         SubmitNextQuery(token, asked, queue, submitted)

\* what the try block does once checkSubmittedQueries is dealt with
AfterSubmitted(count) == IF count % 5 = 0 THEN "checkBalance" ELSE "endTry"

\* what the try block does once processActiveQueries has returned
AfterActive(count, submitted) ==
  IF submitted # {} THEN "checkSubmittedQueries" ELSE AfterSubmitted(count)

\* NextCall with the call of submitNextQuery added after processActiveQueries
NextCallSubmitting(after, count, submitted) ==
  IF after = "try" THEN "processPendingChallenges"
  ELSE IF after = "processPendingChallenges" THEN "processActiveQueries"
  ELSE IF after = "processActiveQueries" THEN "submitNextQuery"
  ELSE IF after = "submitNextQuery" THEN AfterActive(count, submitted)
  ELSE IF after = "checkSubmittedQueries" THEN AfterSubmitted(count)
  ELSE IF after = "checkBalance" THEN "checkRank"
  ELSE "endTry"

\* the statement the try block of mainLoop goes to after the given one
NextCall(after, count, submitted) ==
  IF after = "try" THEN "processPendingChallenges"
  ELSE IF after = "processPendingChallenges" THEN "processActiveQueries"
  ELSE IF after = "processActiveQueries" THEN AfterActive(count, submitted)
  ELSE IF after = "checkSubmittedQueries" THEN AfterSubmitted(count)
  ELSE IF after = "checkBalance" THEN "checkRank"
  ELSE "endTry"

\* mainLoop is called
InitMain ==
  /\ RoundIdle(<<>>)
  /\ pc = "idle"
  /\ cpc = "none"
  /\ votes = <<>>
  /\ judgedChallengeIds = {}
  /\ mpc = "doLogin"
  /\ Declared
  /\ ScriptIdle
  /\ ApiIdle
  /\ ScanIdle
  /\ SubmitIdle
  /\ ReplayIdle

\* the first doLogin: false makes mainLoop return
Login ==
  /\ mpc = "doLogin"
  /\ \E l \in DoLogin(accessToken) :
       /\ accessToken' = l.token
       /\ requests' = requests \cup l.issued
       /\ mpc' = IF l.ok THEN "startBalance" ELSE "returned"
  /\ UNCHANGED <<cycleCount, called, queriesAskedThisSession, submittedQueryIds, QUERY_QUEUE>>
  /\ UNCHANGED <<engine, caller, script, api, scan, replay, submit>>

\* the result of a call, stored
Took(call, o) ==
  /\ accessToken' = o.token
  /\ requests' = requests \cup o.issued
  /\ called' = called \cup {call}
  /\ queriesAskedThisSession' = o.asked
  /\ submittedQueryIds' = o.submitted
  /\ QUERY_QUEUE' = o.queue

\* checkBalance and checkRank before the loop, outside any try: a throw
\* rejects mainLoop's promise, whose handler ends the process
StartupStatus ==
  /\ mpc \in {"startBalance", "startRank"}
  /\ LET call == IF mpc = "startBalance" THEN "checkBalance" ELSE "checkRank"
     IN  \E o \in Outcomes(call, accessToken, queriesAskedThisSession,
                           QUERY_QUEUE, submittedQueryIds) :
           /\ Took(call, o)
           /\ mpc' = IF o.thrown THEN "rejected"
                     ELSE IF mpc = "startBalance" THEN "startRank"
                     ELSE "cycle"
  /\ UNCHANGED cycleCount
  /\ UNCHANGED <<engine, caller, script, api, scan, replay, submit>>

\* top of the loop: cycleCount++, then ensureAuth
CycleStart ==
  /\ mpc = "cycle"
  /\ cycleCount < MaxCycles
  /\ cycleCount' = cycleCount + 1
  /\ \E a \in EnsureAuth(accessToken) :
       /\ accessToken' = a.token
       /\ requests' = requests \cup a.issued
       /\ mpc' = IF a.ok THEN NextCall("try", cycleCount', submittedQueryIds)
                 ELSE "sleepAuth"
  /\ UNCHANGED <<called, queriesAskedThisSession, submittedQueryIds, QUERY_QUEUE>>
  /\ UNCHANGED <<engine, caller, script, api, scan, replay, submit>>

\* one awaited call of the try block: on a throw the catch logs it and the
\* cycle goes to its wait, as it does when the block is through
WorkCall ==
  /\ mpc \in WorkCalls
  /\ \E o \in Outcomes(mpc, accessToken, queriesAskedThisSession,
                       QUERY_QUEUE, submittedQueryIds) :
       /\ Took(mpc, o)
       /\ mpc' = IF o.thrown \/ NextCall(mpc, cycleCount, o.submitted) = "endTry"
                 THEN "sleepCycle"
                 ELSE NextCall(mpc, cycleCount, o.submitted)
  /\ UNCHANGED cycleCount
  /\ UNCHANGED <<engine, caller, script, api, scan, replay, submit>>

\* sleep(30_000) after a failed ensureAuth, sleep(CYCLE_INTERVAL_MS) after
\* the try block: back to the top of the loop
Wait ==
  /\ mpc \in {"sleepAuth", "sleepCycle"}
  /\ mpc' = "cycle"
  /\ UNCHANGED <<cycleCount, accessToken, requests, called,
                 queriesAskedThisSession, submittedQueryIds, QUERY_QUEUE>>
  /\ UNCHANGED <<engine, caller, script, api, scan, replay, submit>>

NextMain ==
  \/ Login
  \/ StartupStatus
  \/ CycleStart
  \/ WorkCall
  \/ Wait

SpecMain == InitMain /\ [][NextMain]_vars

(* ------------------------ registration script -------------------------- *)

\* A text is a sequence of characters.
Lower(ch) ==
  CASE ch = "A" -> "a"
    [] ch = "B" -> "b"
    [] ch = "O" -> "o"
    [] OTHER -> ch

\* String.prototype.toLowerCase
ToLowerCase(s) == [k \in 1..Len(s) |-> Lower(s[k])]

\* String.prototype.trim
RECURSIVE Trim(_)
Trim(s) ==
  IF s = <<>> THEN s
  ELSE IF Head(s) = " " THEN Trim(Tail(s))
  ELSE IF s[Len(s)] = " " THEN Trim(SubSeq(s, 1, Len(s) - 1))
  ELSE s

\* String.prototype.startsWith
StartsWith(s, p) == Len(s) >= Len(p) /\ SubSeq(s, 1, Len(p)) = p

\* String.prototype.includes
Contains(s, sub) ==
  \E k \in 0..(Len(s) - Len(sub)) : SubSeq(s, k + 1, k + Len(sub)) = sub

Digits01 == {"0", "1"}

\* parseInt(response.match(/[01]/)[0]): the first 0 or 1 of the text
FirstDigit(s) ==
  LET k == CHOOSE j \in 1..Len(s) :
             s[j] \in Digits01 /\ \A h \in 1..(j - 1) : s[h] \notin Digits01
  IN  IF s[k] = "0" THEN 0 ELSE 1

OptionASpace == <<"o", "p", "t", "i", "o", "n", " ", "a">>
OptionAUnder == <<"o", "p", "t", "i", "o", "n", "_", "a">>
OptionBSpace == <<"o", "p", "t", "i", "o", "n", " ", "b">>
OptionBUnder == <<"o", "p", "t", "i", "o", "n", "_", "b">>

\* parseChoice
ParseChoice(response) ==
  LET cleaned == Trim(ToLowerCase(response))
  IN  IF StartsWith(cleaned, <<"0">>) THEN 0
      ELSE IF StartsWith(cleaned, <<"1">>) THEN 1
      ELSE IF Contains(cleaned, OptionASpace) \/ Contains(cleaned, OptionAUnder) THEN 0
      ELSE IF Contains(cleaned, OptionBSpace) \/ Contains(cleaned, OptionBUnder) THEN 1
      ELSE IF StartsWith(cleaned, <<"a">>) THEN 0
      ELSE IF StartsWith(cleaned, <<"b">>) THEN 1
      ELSE IF \E j \in 1..Len(response) : response[j] \in Digits01
           THEN FirstDigit(response)
      ELSE 0

\* texts askOllama can return (it trims them): "", "0", "1", "1.", "A",
\* "b)", "Option B", "option_a", "x", "x1", "2 0", "is B"
Responses ==
  {<<>>, <<"0">>, <<"1">>, <<"1", ".">>, <<"A">>, <<"b", ")">>,
   <<"O", "p", "t", "i", "o", "n", " ", "B">>,
   <<"o", "p", "t", "i", "o", "n", "_", "a">>,
   <<"x">>, <<"x", "1">>, <<"2", " ", "0">>, <<"i", "s", " ", "B">>}

\* askOllama: without the key it throws at once; otherwise it returns a
\* text or throws an error whose message holds "429" or does not
AskOllama(key) ==
  IF ~key THEN {[kind |-> "fail", has429 |-> FALSE]}
  ELSE {[kind |-> "ok", text |-> r] : r \in Responses}
         \cup {[kind |-> "fail", has429 |-> b] : b \in BOOLEAN}

\* how a call ended, for llmLog
Ended(o) ==
  IF o.kind = "ok" THEN "ok" ELSE IF o.has429 THEN "fail429" ELSE "fail"

Answer(c, choice) == [challenge_id |-> c, choice |-> choice]

\* the first askOllama call of a challenge and the catch around it, up to
\* the test for "429"
OnFirst(ans, c, o) ==
  IF o.kind = "ok"
  THEN [answers |-> Append(ans, Answer(c, ParseChoice(o.text))), retry |-> FALSE]
  ELSE IF o.has429 THEN [answers |-> ans, retry |-> TRUE]
  ELSE [answers |-> Append(ans, Answer(c, 0)), retry |-> FALSE]

\* OnRetry without the continue: the default is pushed as well
OnRetryNoContinue(ans, c, o) ==
  IF o.kind = "ok"
  THEN Append(Append(ans, Answer(c, ParseChoice(o.text))), Answer(c, 0))
  ELSE Append(ans, Answer(c, 0))

\* the second askOllama call, made after the 60 s wait: its choice and
\* continue, or on any throw the default 0
OnRetry(ans, c, o) ==
  IF o.kind = "ok" THEN Append(ans, Answer(c, ParseChoice(o.text)))
  ELSE Append(ans, Answer(c, 0))

ChallengeIds == {"c1", "c2"}

\* data.challenges of a registration response that startRegistration accepts
ChallengeLists == {s \in SeqsUpTo(ChallengeIds, MaxChallenges) : Len(s) > 0}

\* CanAttempt letting the counter reach MAX_RETRIES first
CanAttemptInclusive(a) == a <= MAX_RETRIES

\* while (attempt < MAX_RETRIES)
CanAttempt(a) == a < MAX_RETRIES

\* main has asked its questions and has the keys; the loop is next
InitRegister ==
  /\ RoundIdle(<<>>)
  /\ pc = "idle"
  /\ cpc = "none"
  /\ votes = <<>>
  /\ judgedChallengeIds = {}
  /\ LoopIdle
  /\ ApiIdle
  /\ ScanIdle
  /\ SubmitIdle
  /\ ReplayIdle
  /\ spc = "loopTest"
  /\ keySet \in BOOLEAN
  /\ attempt = 0
  /\ attemptLog = <<>>
  /\ EvaluateIdle

\* the locals of evaluateWithOllama are gone
EvaluateOver ==
  /\ challenges' = <<>>
  /\ idx' = 0
  /\ epc' = "none"
  /\ regAnswers' = <<>>
  /\ llmLog' = <<>>
  /\ llm' = NoLlm

\* the catch of main's loop: the error is logged, 3 s are waited unless
\* this was the last attempt, and the loop test comes next
Caught ==
  /\ attemptLog' = Append(attemptLog, "threw")
  /\ spc' = "loopTest"
  /\ EvaluateOver

\* the same catch, reached by a throw of saveCredentials or login after the
\* server reported the attempt passed
CaughtAfterPass ==
  /\ attemptLog' = Append(attemptLog, "passedThrew")
  /\ spc' = "loopTest"
  /\ EvaluateOver

\* the loop test succeeds: attempt++
AttemptStart ==
  /\ spc = "loopTest"
  /\ CanAttempt(attempt)
  /\ attempt' = attempt + 1
  /\ spc' = "startRegistration"
  /\ UNCHANGED <<keySet, attemptLog, challenges, idx, epc, regAnswers, llmLog, llm>>
  /\ UNCHANGED <<engine, caller, loop, api, scan, replay, submit>>

\* startRegistration returns the challenges or throws
StartRegistration ==
  /\ spc = "startRegistration"
  /\ \/ Caught
     \/ /\ \E s \in ChallengeLists : challenges' = s
        /\ idx' = 1
        /\ epc' = "first"
        /\ regAnswers' = <<>>
        /\ llmLog' = <<>>
        /\ llm' = NoLlm
        /\ spc' = "evaluate"
        /\ UNCHANGED attemptLog
  /\ UNCHANGED <<keySet, attempt>>
  /\ UNCHANGED <<engine, caller, loop, api, scan, replay, submit>>

\* the first askOllama call of challenge i comes back
EvaluateCall ==
  /\ spc = "evaluate"
  /\ epc = "first"
  /\ idx <= Len(challenges)
  /\ \E o \in AskOllama(keySet) :
       LET r == OnFirst(regAnswers, challenges[idx], o)
       IN  /\ llm' = o
           /\ llmLog' = Append(llmLog, <<Ended(o)>>)
           /\ regAnswers' = r.answers
           /\ epc' = IF r.retry THEN "retry" ELSE "first"
           /\ idx' = IF r.retry THEN idx ELSE idx + 1
  /\ UNCHANGED <<spc, keySet, attempt, attemptLog, challenges>>
  /\ UNCHANGED <<engine, caller, loop, api, scan, replay, submit>>

\* the askOllama call made again after the wait comes back
EvaluateRetry ==
  /\ spc = "evaluate"
  /\ epc = "retry"
  /\ \E o \in AskOllama(keySet) :
       /\ llm' = o
       /\ llmLog' = [llmLog EXCEPT ![idx] = Append(@, Ended(o))]
       /\ regAnswers' = OnRetry(regAnswers, challenges[idx], o)
  /\ epc' = "first"
  /\ idx' = idx + 1
  /\ UNCHANGED <<spc, keySet, attempt, attemptLog, challenges>>
  /\ UNCHANGED <<engine, caller, loop, api, scan, replay, submit>>

\* the loop over the challenges is over: evaluateWithOllama returns answers
EvaluateReturn ==
  /\ spc = "evaluate"
  /\ epc = "first"
  /\ idx > Len(challenges)
  /\ spc' = "submitResponses"
  /\ UNCHANGED <<keySet, attempt, attemptLog, challenges, idx, epc, regAnswers, llmLog, llm>>
  /\ UNCHANGED <<engine, caller, loop, api, scan, replay, submit>>

\* submitResponses throws, or reports the attempt passed or not passed
SubmitResponses ==
  /\ spc = "submitResponses"
  /\ \/ Caught
     \/ /\ spc' = "passed"
        /\ UNCHANGED attemptLog
        /\ EvaluateOver
     \/ /\ spc' = "loopTest"
        /\ attemptLog' = Append(attemptLog, "notPassed")
        /\ EvaluateOver
  /\ UNCHANGED <<keySet, attempt>>
  /\ UNCHANGED <<engine, caller, loop, api, scan, replay, submit>>

\* after a passed attempt: saveCredentials and login, then return; a throw
\* of either is caught like any other
Finish ==
  /\ spc = "passed"
  /\ \/ CaughtAfterPass
     \/ /\ spc' = "returned"
        /\ attemptLog' = Append(attemptLog, "passed")
        /\ EvaluateOver
  /\ UNCHANGED <<keySet, attempt>>
  /\ UNCHANGED <<engine, caller, loop, api, scan, replay, submit>>

\* the loop test fails: process.exit(1)
ExitFailure ==
  /\ spc = "loopTest"
  /\ ~CanAttempt(attempt)
  /\ spc' = "exit1"
  /\ UNCHANGED <<keySet, attempt, attemptLog, challenges, idx, epc, regAnswers, llmLog, llm>>
  /\ UNCHANGED <<engine, caller, loop, api, scan, replay, submit>>

NextRegister ==
  \/ AttemptStart
  \/ StartRegistration
  \/ EvaluateCall
  \/ EvaluateRetry
  \/ EvaluateReturn
  \/ SubmitResponses
  \/ Finish
  \/ ExitFailure

SpecRegister == InitRegister /\ [][NextRegister]_vars

(* ------------------------------ apiRequest ----------------------------- *)

\* MAX_RETRIES of bot.ts, the default of the parameter retries; no call
\* passes another value
retries == 3

\* the access tokens and the refresh token the server hands out
IssuedTokens == {"tok", "tok2"}
IssuedRefresh == "ref"

\* response bodies: none, two JSON texts and a text that is not JSON
Texts == {"", "{\"a\":1}", "null", "oops"}

\* JSON.parse(text) does not throw
IsJson(text) == text \in {"{\"a\":1}", "null"}

\* what fetch and the reading of the response come to: a response, whose
\* text is read only if its status is not one that is tried again, or a throw
Retried(status) == status \in {401, 429} \/ status >= 500
FetchOutcomes ==
  {[kind |-> "response", status |-> s, text |-> ""] : s \in {401, 429, 500, 503}}
    \cup {[kind |-> "response", status |-> s, text |-> x] :
            s \in {200, 404}, x \in Texts}
    \cup {[kind |-> "throw", message |-> "fetch failed"]}

\* fetch has not come back yet
Pending == [kind |-> "pending"]

\* res.ok
Ok(status) == status \in 200..299

\* the object returned for an error
Err(status, detail) == [_error |-> TRUE, status |-> status, detail |-> detail]

\* what is returned for the text of a response that is ok
Value(text) ==
  IF text = "" THEN [value |-> "{}"]
  ELSE IF IsJson(text) THEN [value |-> text]
  ELSE [_raw |-> text]

\* doRefreshToken with the refresh token in view: nothing is sent without
\* one; otherwise the tokens are replaced and true returned, or false
RefreshWith(at, rt) ==
  IF Falsy(rt) THEN {[ok |-> FALSE, access |-> at, refresh |-> rt]}
  ELSE {[ok |-> FALSE, access |-> at, refresh |-> rt]}
         \cup {[ok |-> TRUE, access |-> a, refresh |-> IssuedRefresh] :
                 a \in IssuedTokens}

\* doLogin with the refresh token in view
LoginWith(at, rt) ==
  {[ok |-> FALSE, access |-> at, refresh |-> rt]}
    \cup {[ok |-> TRUE, access |-> a, refresh |-> IssuedRefresh] :
            a \in IssuedTokens}

\* the Authorization header built from a token: none for a falsy one
NoHeader == "none"
Bearer(token) == IF Falsy(token) THEN NoHeader ELSE token

\* the catch of the loop waits and goes on, or returns on the last attempt
CatchContinues(a) == a < retries

InitApi ==
  /\ RoundIdle(<<>>)
  /\ pc = "idle"
  /\ cpc = "none"
  /\ votes = <<>>
  /\ judgedChallengeIds = {}
  /\ mpc = "none"
  /\ cycleCount = 0
  /\ accessToken \in {"", "tok"}
  /\ requests = <<>>
  /\ called = <<>>
  /\ queriesAskedThisSession = 0
  /\ submittedQueryIds = {}
  /\ QUERY_QUEUE = <<QueuedQuestion>>
  /\ ScriptIdle
  /\ refreshToken \in {"", "ref"}
  /\ apc = "none"
  /\ apiAttempt = 0
  /\ headers = ""
  /\ apiLog = <<>>
  /\ apiResult = NoResult
  /\ ScanIdle
  /\ SubmitIdle
  /\ ReplayIdle

loopRest == <<mpc, cycleCount, requests, called, queriesAskedThisSession,
              submittedQueryIds, QUERY_QUEUE>>

\* apiRequest is called: url and headers are built, the loop begins
ApiCall ==
  /\ apc = "none"
  /\ headers' = Bearer(accessToken)
  /\ apiAttempt' = 1
  /\ apc' = "loopTest"
  /\ UNCHANGED <<accessToken, refreshToken, apiLog, apiResult>>
  /\ UNCHANGED <<engine, caller, loopRest, script, scan, replay, submit>>

\* the loop test succeeds and fetch is called with the headers
ApiFetch ==
  /\ apc = "loopTest"
  /\ apiAttempt <= retries
  /\ apiLog' = Append(apiLog, [auth |-> headers, got |-> Pending,
                               renewed |-> FALSE, token |-> accessToken])
  /\ apc' = "fetch"
  /\ UNCHANGED <<accessToken, refreshToken, apiAttempt, headers, apiResult>>
  /\ UNCHANGED <<engine, caller, loopRest, script, scan, replay, submit>>

\* the loop test fails
ApiExhausted ==
  /\ apc = "loopTest"
  /\ apiAttempt > retries
  /\ apiResult' = Err(0, "Max retries exceeded")
  /\ apc' = "returned"
  /\ UNCHANGED <<accessToken, refreshToken, apiAttempt, headers, apiLog>>
  /\ UNCHANGED <<engine, caller, loopRest, script, scan, replay, submit>>

\* how the attempt went is noted in the log
Noted(log, o) == [log EXCEPT ![Len(log)].got = o]

\* ApiContinue with the attempt not counted
ApiContinueUncounted ==
  /\ apiAttempt' = apiAttempt
  /\ apc' = "loopTest"
  /\ UNCHANGED apiResult

\* the attempt is over and the loop goes to its next one
ApiContinue ==
  /\ apiAttempt' = apiAttempt + 1
  /\ apc' = "loopTest"
  /\ UNCHANGED apiResult

\* apiRequest returns v
ApiReturn(v) ==
  /\ apiResult' = v
  /\ apc' = "returned"
  /\ UNCHANGED apiAttempt

\* fetch comes back, with a response or a throw
ApiResponse ==
  /\ apc = "fetch"
  /\ \E o \in FetchOutcomes :
       /\ apiLog' = Noted(apiLog, o)
       /\ IF o.kind = "throw"
          THEN IF CatchContinues(apiAttempt) THEN ApiContinue
               ELSE ApiReturn(Err(0, o.message))
          ELSE IF o.status = 401
          THEN apc' = "refresh" /\ UNCHANGED <<apiAttempt, apiResult>>
          ELSE IF o.status = 429 \/ o.status >= 500 THEN ApiContinue
          ELSE IF ~Ok(o.status) THEN ApiReturn(Err(o.status, o.text))
          ELSE ApiReturn(Value(o.text))
  /\ UNCHANGED <<accessToken, refreshToken, headers>>
  /\ UNCHANGED <<engine, caller, loopRest, script, scan, replay, submit>>

\* after a 401: doRefreshToken; refreshed, the loop continues
ApiRefresh ==
  /\ apc = "refresh"
  /\ \E r \in RefreshWith(accessToken, refreshToken) :
       /\ accessToken' = r.access
       /\ refreshToken' = r.refresh
       /\ IF r.ok
          THEN /\ apiLog' = [apiLog EXCEPT ![Len(apiLog)].renewed = TRUE,
                                          ![Len(apiLog)].token = r.access]
               /\ ApiContinue
          ELSE /\ apc' = "login"
               /\ UNCHANGED <<apiAttempt, apiLog, apiResult>>
  /\ UNCHANGED headers
  /\ UNCHANGED <<engine, caller, loopRest, script, scan, replay, submit>>

\* the refresh failed: doLogin, whose result is not looked at, then continue
ApiLogin ==
  /\ apc = "login"
  /\ \E l \in LoginWith(accessToken, refreshToken) :
       /\ accessToken' = l.access
       /\ refreshToken' = l.refresh
       /\ apiLog' = [apiLog EXCEPT ![Len(apiLog)].renewed = l.ok,
                                   ![Len(apiLog)].token = l.access]
  /\ ApiContinue
  /\ UNCHANGED headers
  /\ UNCHANGED <<engine, caller, loopRest, script, scan, replay, submit>>

NextApi ==
  \/ ApiCall
  \/ ApiFetch
  \/ ApiExhausted
  \/ ApiResponse
  \/ ApiRefresh
  \/ ApiLogin

SpecApi == InitApi /\ [][NextApi]_vars

(* ------------- processPendingChallenges, processActiveQueries ---------- *)

\* how many items of a fetched list are scanned
MaxScan == 2

\* numbers, in tenths, and NaN
Num(t) == [nan |-> FALSE, tenths |-> t]
NaN == [nan |-> TRUE, tenths |-> 0]

\* parseFloat of the texts that occur
ParseFloat(s) ==
  CASE s = "0" -> Num(0)
    [] s = "2.5" -> Num(25)
    [] s = "5" -> Num(50)
    [] s = "7.5" -> Num(75)
    [] s = "10" -> Num(100)
    [] s = "15" -> Num(150)
    [] s = "50" -> Num(500)
    [] OTHER -> NaN

\* a + t/10
Plus(a, t) == IF a.nan THEN NaN ELSE Num(a.tenths + t)

\* a < b, which is false when either is NaN
Lt(a, b) == ~a.nan /\ ~b.nan /\ a.tenths < b.tenths

\* x || d for a text x: a missing or empty x gives d
OrElse(x, d) == IF x = "" THEN d ELSE x

\* calculated_answer_stake, calculated_ranking_stake: missing, a number, or
\* a text that is not a number
StakeTexts == {"", "10", "abc"}

\* available of the balance
AvailableTexts == {"", "15", "abc"}

\* the items of the lists of pending challenges and of active queries
Challenges ==
  [id : PendingIds, query_id : ActiveIds, calculated_ranking_stake : StakeTexts]
Queries ==
  [id : ActiveIds, own : BOOLEAN, flagged : BOOLEAN,
   calculated_answer_stake : StakeTexts]

\* stakeAmount of a challenge and of a query
RankingStake(ch) == ParseFloat(OrElse(ch.calculated_ranking_stake, "2.5"))
AnswerStake(q) == ParseFloat(OrElse(q.calculated_answer_stake, "5"))

\* a request made for an item and what apiRequest returned for it: "null"
\* is the JSON value null, "error" an object with _error
Asked(req, id, res) == [req |-> req, id |-> id, res |-> res, available |-> NaN]

\* checkBalance: the request and, when it returned an object without
\* _error, available
Balance(res, text) ==
  [req |-> "balance", id |-> "agent", res |-> res,
   available |-> ParseFloat(OrElse(text, "0"))]
BalanceChecks ==
  {Balance("null", ""), Balance("error", "")}
    \cup {Balance("ok", x) : x \in AvailableTexts}

\* how the scan of one item ends: the requests made, the set of ids as it
\* is then, and continue, break or throw
Out(log, ids, end) == [issued |-> log, ids |-> ids, end |-> end]

\* !balance || balance.available < stakeAmount + margin
Insufficient(b, stake, margin) ==
  b.res = "error" \/ Lt(b.available, Plus(stake, margin))

\* processPendingChallenges from the vote on
JudgedVote(ch, judged, log) ==
  UNION {LET l == Append(log, Asked("vote", ch.id, v))
         IN  CASE v = "null" -> {Out(l, judged, "throw")}
               [] v = "error" -> {Out(l, judged, "break")}
               [] OTHER -> {Out(l, judged \cup {ch.id}, "break")}
         : v \in {"null", "error", "ok"}}

\* from the fetch of the query to the validation of the result of
\* pairwiseJudge
JudgedRound(ch, judged, log) ==
  UNION {LET l == Append(log, Asked("detail", ch.query_id, d))
         IN  IF d = "null" THEN {Out(l, judged, "throw")}
             ELSE {Out(l, judged, "continue")} \cup JudgedVote(ch, judged, l)
         : d \in {"null", "ok"}}

\* from the fetch of the answers
JudgedAnswers(ch, judged, log) ==
  UNION {LET l == Append(log, Asked("answers", ch.id, a))
         IN  CASE a = "null" -> {Out(l, judged, "throw")}
               [] a \in {"error", "empty"} -> {Out(l, judged, "continue")}
               [] OTHER -> JudgedRound(ch, judged, l)
         : a \in {"null", "error", "empty", "list"}}

\* from the join
JudgedJoin(ch, judged, log) ==
  UNION {LET l == Append(log, Asked("join", ch.id, j))
         IN  CASE j = "null" -> {Out(l, judged, "throw")}
               [] j = "error" -> {Out(l, judged, "continue")}
               [] OTHER -> JudgedAnswers(ch, judged, l)
         : j \in {"null", "error", "ok"}}

\* from checkBalance
JudgedBalance(ch, judged, log) ==
  UNION {LET l == Append(log, b)
         IN  IF b.res = "null" THEN {Out(l, judged, "throw")}
             ELSE IF Insufficient(b, RankingStake(ch), 50)
             THEN {Out(l, judged, "continue")}
             ELSE JudgedJoin(ch, judged, l)
         : b \in BalanceChecks}

\* one iteration of the loop of processPendingChallenges
ChallengeStep(ch, judged, answered) ==
  IF ch.id \in judged THEN {Out(<<>>, judged, "continue")}
  ELSE IF ch.query_id \in answered THEN {Out(<<>>, judged, "continue")}
  ELSE UNION {LET l == <<Asked("eligibility", ch.id, e)>>
              IN  CASE e = "null" -> {Out(l, judged, "throw")}
                    [] e \in {"error", "notEligible"} -> {Out(l, judged, "continue")}
                    [] e = "voted" -> {Out(l, judged \cup {ch.id}, "continue")}
                    [] OTHER -> JudgedBalance(ch, judged, l)
              : e \in {"null", "error", "notEligible", "voted", "eligible"}}

\* processActiveQueries from askLLM on
AnsweredPost(q, answered, log) ==
  {Out(log, answered, "continue")}
    \cup UNION {LET l == Append(log, Asked("answer", q.id, a))
                IN  CASE a = "null" -> {Out(l, answered, "throw")}
                      [] a = "error" -> {Out(l, answered, "break")}
                      [] OTHER -> {Out(l, answered \cup {q.id}, "break")}
                : a \in {"null", "error", "ok"}}

\* from the fetch of the query
AnsweredDetail(q, answered, log) ==
  UNION {LET l == Append(log, Asked("detail", q.id, d))
         IN  CASE d = "null" -> {Out(l, answered, "throw")}
               [] d = "noText" -> {Out(l, answered, "continue")}
               [] OTHER -> AnsweredPost(q, answered, l)
         : d \in {"null", "noText", "text"}}

\* from the join
AnsweredJoin(q, answered, log) ==
  UNION {LET l == Append(log, Asked("join", q.id, j))
         IN  CASE j = "null" -> {Out(l, answered, "throw")}
               [] j = "error" -> {Out(l, answered, "continue")}
               [] OTHER -> AnsweredDetail(q, answered, l)
         : j \in {"null", "error", "ok"}}

\* one iteration of the loop of processActiveQueries
QueryStep(q, answered) ==
  IF q.id \in answered THEN {Out(<<>>, answered, "continue")}
  ELSE IF q.own THEN {Out(<<>>, answered, "continue")}
  ELSE IF q.flagged THEN {Out(<<>>, answered \cup {q.id}, "continue")}
  ELSE UNION {LET l == <<b>>
              IN  IF b.res = "null" THEN {Out(l, answered, "throw")}
                  ELSE IF Insufficient(b, AnswerStake(q), 100)
                  THEN {Out(l, answered, "continue")}
                  ELSE AnsweredJoin(q, answered, l)
              : b \in BalanceChecks}

\* the posts of kind req among the requests, and those answered with a 2xx
Posts(log, req) == SelectSeq(log, LAMBDA e : e.req = req)
Accepted(log, req) ==
  SelectSeq(log, LAMBDA e : e.req = req /\ e.res \in {"ok", "null"})

\* the ids with an accepted post, the posts of the item added
Counted(ids, log, req) == ids \cup {e.id : e \in Range(Accepted(log, req))}

InitScan ==
  /\ RoundIdle(<<>>)
  /\ pc = "idle"
  /\ cpc = "none"
  /\ votes = <<>>
  /\ judgedChallengeIds = {}
  /\ LoopIdle
  /\ ScriptIdle
  /\ ApiIdle
  /\ ScanIdle
  /\ SubmitIdle
  /\ ReplayIdle

callerRest == <<cpc, votes>>

\* where the cycle goes when a scan returns
AfterScan(fun) == IF fun = "pending" THEN "activeCall" ELSE "idle"

\* a cycle calls processPendingChallenges, which fetches the list
PendingFetch ==
  /\ sfun = "idle"
  /\ posted' = [votes |-> 0, answers |-> 0]
  /\ scanned' = NoScan
  /\ \/ sfun' = "idle" /\ remaining' = 0
     \/ sfun' = "activeCall" /\ remaining' = 0
     \/ \E n \in 0..MaxScan : sfun' = "pending" /\ remaining' = n
  /\ UNCHANGED <<answeredQueryIds, judgedChallengeIds, okVotes, okAnswers>>
  /\ UNCHANGED <<engine, callerRest, loop, script, api, replay, submit>>

\* the next challenge of the list is scanned
PendingItem ==
  /\ sfun = "pending"
  /\ remaining > 0
  /\ scanned = NoScan
  /\ \E ch \in Challenges :
       \E o \in ChallengeStep(ch, judgedChallengeIds, answeredQueryIds) :
         /\ scanned' = [fun |-> "pending", item |-> ch, issued |-> o.issued,
                        end |-> o.end]
         /\ judgedChallengeIds' = o.ids
         /\ okVotes' = Counted(okVotes, o.issued, "vote")
         /\ posted' = [posted EXCEPT !.votes = @ + Len(Posts(o.issued, "vote"))]
  /\ UNCHANGED <<answeredQueryIds, sfun, remaining, okAnswers>>
  /\ UNCHANGED <<engine, callerRest, loop, script, api, replay, submit>>

\* ItemEnd with the break taken for a continue
ItemEndNoBreak ==
  /\ scanned # NoScan
  /\ IF scanned.end \in {"continue", "break"}
     THEN remaining' = remaining - 1 /\ UNCHANGED sfun
     ELSE /\ remaining' = 0
          /\ sfun' = "idle"
  /\ scanned' = NoScan
  /\ UNCHANGED <<answeredQueryIds, okVotes, okAnswers, posted>>
  /\ UNCHANGED <<engine, caller, loop, script, api, replay, submit>>

\* after an item the loop goes to its next item, or the function is left by
\* the break, or the try of the cycle by a throw
ItemEnd ==
  /\ scanned # NoScan
  /\ IF scanned.end = "continue"
     THEN remaining' = remaining - 1 /\ UNCHANGED sfun
     ELSE /\ remaining' = 0
          /\ sfun' = IF scanned.end = "throw" THEN "idle" ELSE AfterScan(sfun)
  /\ scanned' = NoScan
  /\ UNCHANGED <<answeredQueryIds, okVotes, okAnswers, posted>>
  /\ UNCHANGED <<engine, caller, loop, script, api, replay, submit>>

\* the list of challenges is exhausted
PendingDone ==
  /\ sfun = "pending"
  /\ remaining = 0
  /\ scanned = NoScan
  /\ sfun' = AfterScan(sfun)
  /\ UNCHANGED <<answeredQueryIds, remaining, scanned, okVotes, okAnswers, posted>>
  /\ UNCHANGED <<engine, caller, loop, script, api, replay, submit>>

\* the cycle calls processActiveQueries, which fetches the list
ActiveFetch ==
  /\ sfun = "activeCall"
  /\ scanned' = NoScan
  /\ \/ sfun' = "idle" /\ remaining' = 0
     \/ \E n \in 0..MaxScan : sfun' = "active" /\ remaining' = n
  /\ UNCHANGED <<answeredQueryIds, okVotes, okAnswers, posted>>
  /\ UNCHANGED <<engine, caller, loop, script, api, replay, submit>>

\* the next query of the list is scanned
ActiveItem ==
  /\ sfun = "active"
  /\ remaining > 0
  /\ scanned = NoScan
  /\ \E q \in Queries :
       \E o \in QueryStep(q, answeredQueryIds) :
         /\ scanned' = [fun |-> "active", item |-> q, issued |-> o.issued,
                        end |-> o.end]
         /\ answeredQueryIds' = o.ids
         /\ okAnswers' = Counted(okAnswers, o.issued, "answer")
         /\ posted' = [posted EXCEPT !.answers = @ + Len(Posts(o.issued, "answer"))]
  /\ UNCHANGED <<sfun, remaining, okVotes>>
  /\ UNCHANGED <<engine, caller, loop, script, api, replay, submit>>

\* the list of queries is exhausted
ActiveDone ==
  /\ sfun = "active"
  /\ remaining = 0
  /\ scanned = NoScan
  /\ sfun' = AfterScan(sfun)
  /\ UNCHANGED <<answeredQueryIds, remaining, scanned, okVotes, okAnswers, posted>>
  /\ UNCHANGED <<engine, caller, loop, script, api, replay, submit>>

NextScan ==
  \/ PendingFetch
  \/ PendingItem
  \/ ItemEnd
  \/ PendingDone
  \/ ActiveFetch
  \/ ActiveItem
  \/ ActiveDone

SpecScan == InitScan /\ [][NextScan]_vars

(* ------------------------- two rounds in a row ------------------------- *)

\* The candidate lists two rounds are run on: the lists that return at once,
\* the lists that go to the tournament, and of the lists that go to
\* directRank those of distinct names.
ReplayLists ==
  {s \in CandidateLists :
     (IsDirect(Len(s)) /\ ~IsTrivial(Len(s)))
       => (IsDistinct(s) /\ Range(s) \subseteq NameIds)}

\* a comparison answered with a verdict for one side
Verdicts == {r \in CompareResponses : r.kind = "json" /\ r.winner \in {"A", "B"}}

\* What the oracle answers in a round on s, call after call: the one answer
\* to directRank's call, or three answers the comparisons get in turn, any one
\* followed by two verdicts.
Plans(s) ==
  IF IsTrivial(Len(s)) THEN {<<>>}
  ELSE IF IsDirect(Len(s)) THEN {<<r>> : r \in RankResponses(s)}
  ELSE {<<x, y, z>> : x \in CompareResponses, y \in Verdicts, z \in Verdicts}

\* the answer to the k-th call of a round
PlanAt(k) == plan[((k - 1) % Len(plan)) + 1]

\* what a call of pairwiseJudge came back with
Outcome == [pc |-> pc, rankings |-> rankings, goodAnswers |-> goodAnswers]

\* pairwiseJudge is about to be called on some list, with the answers the
\* oracle will give fixed
InitRounds ==
  /\ \E s \in ReplayLists : RoundIdle(s)
  /\ plan \in Plans(answers)
  /\ first = NoMemo
  /\ pc = "call"
  /\ cpc = "none"
  /\ votes = <<>>
  /\ judgedChallengeIds = {}
  /\ LoopIdle
  /\ ScriptIdle
  /\ ApiIdle
  /\ ScanIdle
  /\ SubmitIdle

\* askLLM comes back to directRank with the answer fixed for the round
PlannedDirectReturn ==
  /\ pc = "awaitRank"
  /\ DirectReturnWith(PlanAt(1))

\* askLLM comes back to the comparison with the answer fixed for it
PlannedPairReturn ==
  /\ pc = "awaitCompare"
  /\ resp' = PlanAt(pairIdx)
  /\ PairReturn

\* The first round has come back and the caller calls pairwiseJudge again on
\* the same list. In between the bot may have recorded the challenge as judged
\* and may have logged in. The locals of the round that is over are left as
\* they are: the new call has to set up its own.
Again ==
  /\ pc \in {"returned", "thrown"}
  /\ first = NoMemo
  /\ first' = Outcome
  /\ pc' = "call"
  /\ rankings' = <<>>
  /\ goodAnswers' = <<>>
  /\ oracleLog' = <<>>
  /\ resp' = NoResp
  /\ onlyFailures' = TRUE
  /\ judgedChallengeIds' \in {judgedChallengeIds, judgedChallengeIds \cup {ChallengeId}}
  /\ accessToken' \in {accessToken, "tok"}
  /\ UNCHANGED <<answers, pairIdx, winCounts, plan>>
  /\ UNCHANGED <<cpc, votes>>
  /\ UNCHANGED loopRest
  /\ UNCHANGED <<script, api, scan, submit>>

NextRounds ==
  \/ Trivial
  \/ DirectIssue
  \/ PlannedDirectReturn
  \/ TournamentStart
  \/ PairIssue
  \/ PlannedPairReturn
  \/ TournamentReturn
  \/ Again

SpecRounds == InitRounds /\ [][NextRounds]_vars

(* --------------------------- submitNextQuery --------------------------- *)

\* the questions generateAndQueueQuestion pushes
GeneratedQuestions == {"g1", "g2"}

\* available of the balance as submitNextQuery meets it: missing, below
\* MIN_ENERGY_FOR_QUERY, at it, or a text that is not a number
EnergyTexts == {"", "15", "50", "abc"}

\* what the call of checkBalance comes to: it throws (the body was the JSON
\* value null), it returns null (apiRequest returned an error), or it returns
\* a balance
BalanceResult(kind, available) == [kind |-> kind, available |-> available]
BalanceResults ==
  {BalanceResult("thrown", NaN), BalanceResult("null", NaN)}
    \cup {BalanceResult("balance", ParseFloat(OrElse(x, "0"))) : x \in EnergyTexts}

\* !balance || balance.available < MIN_ENERGY_FOR_QUERY
NotEnough(b) ==
  b.kind = "null" \/ Lt(b.available, Num(10 * MIN_ENERGY_FOR_QUERY))

\* what apiRequest returns for POST /queries: an object with _error, the
\* JSON value null, or an object without _error whose id is an id or missing
PostResult(kind, id) == [kind |-> kind, id |-> id]
PostResults ==
  {PostResult("error", Undefined), PostResult("null", Undefined)}
    \cup {PostResult("ok", x) : x \in QueryIds \cup {Undefined}}

\* nothing asked, nothing sent
NotAsked == BalanceResult("none", NaN)
NotSent == PostResult("none", Undefined)

\* QUERY_QUEUE.unshift(queryData) putting the question at the end
PutBackLast(queue, queryData) == Append(queue, queryData)

\* QUERY_QUEUE.unshift(queryData)
PutBack(queue, queryData) == <<queryData>> \o queue

\* the module-level variables submitNextQuery does not name, but apiRequest
\* may replace the token
loopOther == <<mpc, cycleCount, requests, called>>

\* the bot with its module-level state as declared, nothing running
InitSubmit ==
  /\ RoundIdle(<<>>)
  /\ pc = "idle"
  /\ cpc = "none"
  /\ votes = <<>>
  /\ judgedChallengeIds = {}
  /\ LoopIdle
  /\ ScriptIdle
  /\ ApiIdle
  /\ ScanIdle
  /\ SubmitIdle
  /\ ReplayIdle

\* submitNextQuery is called: it returns at once when the session has asked
\* its questions or the queue is empty, and awaits checkBalance otherwise
SubmitCall ==
  /\ qpc = "idle"
  /\ LET c == [queue |-> QUERY_QUEUE, asked |-> queriesAskedThisSession,
               submitted |-> submittedQueryIds, balance |-> NotAsked,
               queryData |-> Undefined, res |-> NotSent, end |-> "running"]
     IN  IF queriesAskedThisSession >= MAX_QUERIES_PER_SESSION
            \/ Len(QUERY_QUEUE) = 0
         THEN qcall' = [c EXCEPT !.end = "returned"] /\ qpc' = "idle"
         ELSE qcall' = c /\ qpc' = "balance"
  /\ UNCHANGED <<queriesAskedThisSession, submittedQueryIds, QUERY_QUEUE>>
  /\ UNCHANGED <<accessToken, loopOther>>
  /\ UNCHANGED <<engine, caller, script, api, scan, replay>>

\* checkBalance comes back: a throw leaves submitNextQuery, no balance or
\* too small a one returns, anything else shifts the queue and posts
BalanceReturn ==
  /\ qpc = "balance"
  /\ \E b \in BalanceResults :
       LET c == [qcall EXCEPT !.balance = b]
       IN  CASE b.kind = "thrown" ->
                  /\ qcall' = [c EXCEPT !.end = "threw"]
                  /\ qpc' = "idle"
                  /\ UNCHANGED QUERY_QUEUE
             [] b.kind # "thrown" /\ NotEnough(b) ->
                  /\ qcall' = [c EXCEPT !.end = "returned"]
                  /\ qpc' = "idle"
                  /\ UNCHANGED QUERY_QUEUE
             [] OTHER ->
                  /\ qcall' = [c EXCEPT !.queryData = Head(QUERY_QUEUE)]
                  /\ qpc' = "post"
                  /\ QUERY_QUEUE' = Tail(QUERY_QUEUE)
  /\ \E a \in Reauth(accessToken) : accessToken' = a.token
  /\ UNCHANGED <<queriesAskedThisSession, submittedQueryIds>>
  /\ UNCHANGED loopOther
  /\ UNCHANGED <<engine, caller, script, api, scan, replay>>

\* POST /queries comes back: an error puts the question back, the JSON value
\* null makes res._error throw, anything else is recorded as a submission
PostReturn ==
  /\ qpc = "post"
  /\ \E r \in PostResults :
       LET c == [qcall EXCEPT !.res = r]
       IN  CASE r.kind = "null" ->
                  /\ qcall' = [c EXCEPT !.end = "threw"]
                  /\ UNCHANGED <<queriesAskedThisSession, submittedQueryIds,
                                 QUERY_QUEUE>>
             [] r.kind = "error" ->
                  /\ qcall' = [c EXCEPT !.end = "returned"]
                  /\ QUERY_QUEUE' = PutBack(QUERY_QUEUE, qcall.queryData)
                  /\ UNCHANGED <<queriesAskedThisSession, submittedQueryIds>>
             [] OTHER ->
                  /\ qcall' = [c EXCEPT !.end = "returned"]
                  /\ submittedQueryIds' = submittedQueryIds \cup {r.id}
                  /\ queriesAskedThisSession' = queriesAskedThisSession + 1
                  /\ UNCHANGED QUERY_QUEUE
  /\ qpc' = "idle"
  /\ \E a \in Reauth(accessToken) : accessToken' = a.token
  /\ UNCHANGED loopOther
  /\ UNCHANGED <<engine, caller, script, api, scan, replay>>

\* between two calls generateAndQueueQuestion pushes a question
QueueQuestion ==
  /\ qpc = "idle"
  /\ Len(QUERY_QUEUE) < MaxQueue
  /\ \E q \in GeneratedQuestions : QUERY_QUEUE' = Append(QUERY_QUEUE, q)
  /\ UNCHANGED <<queriesAskedThisSession, submittedQueryIds>>
  /\ UNCHANGED <<accessToken, loopOther>>
  /\ UNCHANGED <<engine, caller, script, api, scan, replay, submit>>

NextSubmit ==
  \/ SubmitCall
  \/ BalanceReturn
  \/ PostReturn
  \/ QueueQuestion

SpecSubmit == InitSubmit /\ [][NextSubmit]_vars

(* ------------------------------ properties ----------------------------- *)

Returned == pc = "returned"
ViaDirect == Returned /\ ~IsTrivial(Len(answers)) /\ Len(answers) <= DirectMax
ViaTournament == Returned /\ Len(answers) > DirectMax

\* r holds every element of s exactly once and nothing else
IsPermutation(r, s) ==
  /\ Len(r) = Len(s)
  /\ IsDistinct(r)
  /\ Range(r) = Range(s)

Known(id) == id \in Range(answers)

\* the elements of l that are candidate ids
KnownOf(l) == SelectSeq(l, Known)

\* the response is JSON whose two fields are each missing or a list
WellShaped(r) ==
  r.kind = "json" /\ r.ranked.t # "nonlist" /\ r.good.t # "nonlist"

C2_GoodWithinInput ==
  Returned => \A i \in 1..Len(goodAnswers) : Known(goodAnswers[i])

\* a direct round whose oracle named a foreign id and a known id as good
C2_Witness ==
  /\ ViaDirect
  /\ resp.kind = "json"
  /\ resp.ranked.t = "list"
  /\ ForeignId \in Range(resp.good.v)
  /\ \E i \in 1..Len(resp.good.v) : Known(resp.good.v[i])

\* C3 as stated: the returned goodAnswers is non-empty for every size.
C3_GoodNonEmptyAnySize == Returned => Len(goodAnswers) > 0

\* C3, amended: for a non-empty candidate list the returned goodAnswers is
\* non-empty.
C3_GoodNonEmpty == (Returned /\ Len(answers) > 0) => Len(goodAnswers) > 0

\* a direct round whose oracle named only foreign ids as good
C3_Witness ==
  /\ ViaDirect
  /\ WellShaped(resp)
  /\ Len(resp.good.v) > 0
  /\ KnownOf(resp.good.v) = <<>>

\* C4: pairwiseJudge never throws.  Until it has returned it can always go
\* on, given only that the oracle call it awaits comes back: some branch
\* applies to every size, an awaited call can come back with any response,
\* and the loop over pairs either has a next pair to send or is over, which
\* is where the result is computed and returned.  It issues at most 2n
\* oracle calls (one in the direct path), so the round ends.
C4_NeverThrowsAlwaysReturns ==
  /\ pc \in {"call", "awaitRank", "pairs", "awaitCompare", "returned"}
  /\ pc = "call" => ENABLED (Trivial \/ DirectIssue \/ TournamentStart)
  /\ pc = "awaitRank" => ENABLED DirectReturn
  /\ pc = "awaitCompare" => ENABLED PairReturn
  /\ pc = "pairs" =>
       /\ pairIdx \in 1..(2 * Len(answers) + 1)
       /\ pairIdx <= 2 * Len(answers) => ENABLED PairIssue
  /\ Len(oracleLog) <= Max(1, 2 * Len(answers))

\* a tournament round that returned although every oracle call failed
C4_Witness ==
  /\ ViaTournament
  /\ onlyFailures
  /\ Len(oracleLog) = 2 * Len(answers)

\* r lists index ids first, in ascending numeric order, then the other ids
\* of s in the order of s
InEntriesOrder(r, s) ==
  /\ IsPermutation(r, s)
  /\ \A i, j \in 1..Len(r) :
       (i < j /\ r[j] \in IndexIds) =>
         (r[i] \in IndexIds /\ IndexValue(r[i]) < IndexValue(r[j]))
  /\ SelectSeq(r, LAMBDA id : id \notin IndexIds)
       = SelectSeq(s, LAMBDA id : id \notin IndexIds)

C6_FallbackUnlessExpectedShape ==
  (ViaDirect /\ ~(resp.kind = "json" /\ resp.ranked.t = "list" /\ resp.good.t = "list"))
    => (rankings = answers /\ goodAnswers = answers)

\* C6, amended: in the direct path the result is the identity fallback when
\* the call fails, the text is no JSON, the JSON is null, answer_rankings is
\* a truthy value that cannot be iterated or good_answers a truthy value
\* that is no array; a missing field is read as an empty list instead, so a
\* JSON value with neither field gives the candidates in input order (each
\* id once) as rankings and the first of them alone as goodAnswers.
C6_FallbackOnThrow ==
  /\ (ViaDirect /\ ~WellShaped(resp))
       => (rankings = answers /\ goodAnswers = answers)
  /\ (ViaDirect /\ WellShaped(resp)
        /\ resp.ranked.t = "absent" /\ resp.good.t = "absent")
       => (rankings = SetOrder(answers) /\ goodAnswers = <<answers[1]>>)

\* a direct round over three candidates whose response was JSON null
C6_Witness ==
  /\ ViaDirect
  /\ Len(answers) = 3
  /\ resp.kind = "null"

\* what the two checks are to establish: rankings hold every fetched
\* answer id exactly once and nothing else, and every good id is fetched
ResultValid ==
  /\ IsPermutation(rankings, SetOrder(answers))
  /\ Range(goodAnswers) \subseteq Range(answers)

\* C7: a vote is posted only with rankings that are a permutation of the
\* set of fetched answer ids and good ids of that set; a result failing
\* either test is never posted and leaves the challenge out of
\* judgedChallengeIds.
C7_VoteOnlyIfValid ==
  /\ \A i \in 1..Len(votes) :
       /\ votes[i] = VoteBody(rankings, goodAnswers)
       /\ ResultValid
  /\ (cpc \in {"rejected", "voting", "done"} /\ ~ResultValid) =>
       (cpc = "rejected" /\ votes = <<>> /\ ChallengeId \notin judgedChallengeIds)
  /\ cpc = "rejected" => (votes = <<>> /\ ChallengeId \notin judgedChallengeIds)
  /\ ChallengeId \in judgedChallengeIds => Len(votes) = 1

\* the result of a round over repeated ids was rejected
C7_Witness == cpc = "rejected" /\ ~IsDistinct(rankings)

\* C8: for no candidate the result is empty rankings and empty goodAnswers,
\* for one candidate X it is [X] and [X]; no oracle call is issued.
C8_TrivialSizes ==
  Len(answers) <= 1 =>
    /\ oracleLog = <<>>
    /\ pc \in {"call", "returned"}
    /\ Returned => (rankings = answers /\ goodAnswers = answers)

\* a round over one candidate has returned
C8_Witness == Returned /\ Len(answers) = 1 /\ cpc = "none"

\* C9 as stated: in the direct path, whenever the response carries a ranking
\* list L, the rankings are the known ids of L at their first occurrence,
\* followed by the candidates missing from L in input order.
C9_RankingsFromList ==
  (ViaDirect /\ resp.kind = "json" /\ resp.ranked.t = "list") =>
    rankings = SetOrder(KnownOf(resp.ranked.v))
                 \o SelectSeq(SetOrder(answers),
                              LAMBDA id : id \notin Range(resp.ranked.v))

\* C9, amended: the same, provided good_answers is missing or a list (any
\* other truthy good_answers makes the round fall back to the input order);
\* with distinct candidate ids the rankings are then a permutation.
C9_RankingsFromListGoodOk ==
  (ViaDirect /\ WellShaped(resp) /\ resp.ranked.t = "list") =>
    /\ rankings = SetOrder(KnownOf(resp.ranked.v))
                    \o SelectSeq(SetOrder(answers),
                                 LAMBDA id : id \notin Range(resp.ranked.v))
    /\ IsDistinct(answers) => IsPermutation(rankings, answers)

\* three distinct candidates; the oracle's list repeats one id and omits
\* another, and does not start with the first candidate
C9_Witness ==
  /\ ViaDirect
  /\ WellShaped(resp)
  /\ resp.ranked.t = "list"
  /\ Len(answers) = 3
  /\ IsDistinct(answers)
  /\ ~IsDistinct(resp.ranked.v)
  /\ \E i \in 1..3 : answers[i] \notin Range(resp.ranked.v)
  /\ rankings[1] # answers[1]
  /\ Len(resp.ranked.v) = 3

\* C10: in the direct path with a response that parses into the expected
\* fields, goodAnswers is the first of the final rankings alone when the
\* good list is empty or holds no known id, and the good list restricted to
\* known ids otherwise.
C10_GoodFromList ==
  (ViaDirect /\ WellShaped(resp)) =>
    IF \A i \in 1..Len(resp.good.v) : ~Known(resp.good.v[i])
    THEN goodAnswers = <<rankings[1]>>
    ELSE goodAnswers = KnownOf(resp.good.v)

\* the good list holds only a foreign id, and the oracle ranked another
\* candidate than the first on top
C10_Witness ==
  /\ ViaDirect
  /\ WellShaped(resp)
  /\ resp.good.v = <<ForeignId>>
  /\ rankings[1] # answers[1]

\* winCounts[id]
Wins(wc, id) == wc[CHOOSE k \in 1..Len(wc) : wc[k].id = id].wins

\* the position of id in the list r
PositionIn(r, id) == CHOOSE p \in 1..Len(r) : r[p] = id

\* C11: in a tournament round candidates of equal win count stand in the
\* rankings in the order they have in the input; when no candidate has won
\* a comparison (every comparison a tie) the rankings are the input order.
C11_TiesKeepInputOrder ==
  ViaTournament =>
    /\ \A i, j \in 1..Len(answers) :
         (i < j /\ Wins(winCounts, answers[i]) = Wins(winCounts, answers[j]))
           => PositionIn(rankings, answers[i]) < PositionIn(rankings, answers[j])
    /\ (\A k \in 1..Len(winCounts) : winCounts[k].wins = 0) => rankings = answers

C13_StrategyBySize ==
  /\ Len(answers) \in 2..3 =>
       /\ Len(oracleLog) <= 1
       /\ \A k \in 1..Len(oracleLog) :
            oracleLog[k] = [call |-> "rank", ids |-> answers]
       /\ Returned => Len(oracleLog) = 1
  /\ Len(answers) >= 4 =>
       /\ \A k \in 1..Len(oracleLog) :
            oracleLog[k].call = "compare" /\ Len(oracleLog[k].ids) = 2
       /\ Returned => Len(oracleLog) > 0

\* a round over three candidates has returned after its one call
C13_Witness ==
  /\ ViaDirect
  /\ Len(answers) = 3
  /\ oracleLog = <<[call |-> "rank", ids |-> answers]>>
  /\ ~onlyFailures

\* C18: in a tournament round the k-th comparison is, for i = (k-1) div 2,
\* the pair (i, (i+1) mod n) for odd k and (i, (i+2) mod n) for even k; its
\* two indices differ; 2n comparisons are issued in all, and every candidate
\* is the first of exactly 2 of them and the second of exactly 2.
C18_Schedule ==
  Len(answers) >= 4 =>
    LET n == Len(answers)
    IN  /\ \A k \in 1..Len(oracleLog) :
             LET i == (k - 1) \div 2
                 j == IF k % 2 = 1 THEN (i + 1) % n ELSE (i + 2) % n
             IN  /\ i # j
                 /\ oracleLog[k].ids = <<answers[i + 1], answers[j + 1]>>
        /\ Len(oracleLog) <= 2 * n
        /\ Returned =>
             /\ Len(oracleLog) = 2 * n
             /\ \A m \in 1..n :
                  /\ Cardinality({k \in 1..(2 * n) : oracleLog[k].ids[1] = answers[m]}) = 2
                  /\ Cardinality({k \in 1..(2 * n) : oracleLog[k].ids[2] = answers[m]}) = 2

\* a tournament round has returned after its full schedule, some of whose
\* comparisons were decided
C18_Witness ==
  /\ ViaTournament
  /\ Len(oracleLog) = 2 * Len(answers)
  /\ \E k \in 1..Len(winCounts) : winCounts[k].wins = 2

\* what a comparison of a and b that came back with r adds to the count of id
Gain(id, a, b, r) ==
  IF r.kind = "json" /\ r.winner = "A" /\ id = a THEN 1
  ELSE IF r.kind = "json" /\ r.winner = "B" /\ id = b THEN 1
  ELSE 0

\* C19: the step that takes a comparison's outcome adds 1 to the count of
\* the first candidate on outcome A, 1 to the count of the second on outcome
\* B and nothing on a tie, a failed call, an unparseable response or any
\* other winner; no other count changes, and the loop goes on to the next
\* scheduled pair.
C19_TallyFrame ==
  [][pc = "awaitCompare" =>
       LET ids == oracleLog[Len(oracleLog)].ids
       IN  /\ pc' = "pairs"
           /\ pairIdx' = pairIdx + 1
           /\ Len(winCounts') = Len(winCounts)
           /\ \A k \in 1..Len(winCounts) :
                /\ winCounts'[k].id = winCounts[k].id
                /\ winCounts'[k].wins
                     = winCounts[k].wins + Gain(winCounts[k].id, ids[1], ids[2], resp')
           /\ UNCHANGED <<answers, oracleLog, rankings, goodAnswers>>]_vars

\* a comparison has just been decided for its second candidate, after one
\* with an unknown winner value left the tally alone
C19_Witness ==
  /\ pc = "pairs"
  /\ resp.kind = "json"
  /\ resp.winner = "B"
  /\ Wins(winCounts, oracleLog[Len(oracleLog)].ids[2]) = 1
  /\ Wins(winCounts, oracleLog[Len(oracleLog)].ids[1]) = 0
  /\ Len(oracleLog) >= 2

\* C20: the rankings of a tournament round are in non-increasing order of
\* the final win counts.
C20_NonIncreasingWins ==
  ViaTournament =>
    \A p, q \in 1..Len(rankings) :
      p < q => Wins(winCounts, rankings[p]) >= Wins(winCounts, rankings[q])

\* a tournament round whose tally had to be reordered: the last entry of
\* the tally won most
C20_Witness ==
  /\ ViaTournament
  /\ rankings[1] = winCounts[Len(winCounts)].id
  /\ Wins(winCounts, rankings[1]) > Wins(winCounts, rankings[2])

\* mainLoop has got past its first login
LoggedIn == mpc \notin {"none", "doLogin", "returned"}

\* C14: once the first login has succeeded mainLoop does not end: it neither
\* returns nor throws; a cycle that fails authentication, completes or
\* throws in its work section goes to a wait, and a wait to the next cycle;
\* when the first login fails mainLoop returns with no cycle run.
C14_RunsUntilStopped ==
  /\ [](mpc # "rejected")
  /\ [](mpc = "returned" => cycleCount = 0 /\ called = {})
  /\ [][/\ (LoggedIn /\ mpc = "cycle") =>
             mpc' \in {"sleepAuth", "processPendingChallenges"}
        /\ (LoggedIn /\ mpc \in WorkCalls) =>
             mpc' \in WorkCalls \cup {"sleepCycle"}
        /\ mpc \in {"sleepAuth", "sleepCycle"} =>
             (mpc' = "cycle" /\ cycleCount' = cycleCount)
        /\ LoggedIn => LoggedIn']_vars

\* C15: mainLoop never issues POST /queries and never calls submitNextQuery
\* or checkSubmittedQueries; queriesAskedThisSession stays 0 and
\* submittedQueryIds stays empty.
C15_SubmissionDisabled ==
  /\ SubmitReq \notin requests
  /\ mpc \notin {"submitNextQuery", "checkSubmittedQueries"}
  /\ called \cap {"submitNextQuery", "checkSubmittedQueries"} = {}
  /\ queriesAskedThisSession = 0
  /\ submittedQueryIds = {}

\* the fifth cycle is at its wait; answers and votes have been posted
C15_Witness ==
  /\ mpc = "sleepCycle"
  /\ cycleCount = 5
  /\ Req("POST", "/queries/:id/answers") \in requests
  /\ Req("POST", "/rankings/votes") \in requests
  /\ "checkRank" \in called

Unsuccessful == {"threw", "notPassed", "passedThrew"}

\* C16: the script makes at most 3 registration attempts in a run; after an
\* attempt that threw or was reported not passed another one is started as
\* long as fewer than 3 have been made; after the third such attempt no
\* other is started and the script exits with status 1, which it does in no
\* other case.
C16_ThreeAttempts ==
  /\ attempt \in 0..3
  /\ Len(attemptLog) <= attempt
  /\ (spc = "loopTest" /\ attempt < 3) =>
       (ENABLED AttemptStart /\ ~ENABLED ExitFailure)
  /\ (spc = "loopTest" /\ attempt = 3) =>
       (ENABLED ExitFailure /\ ~ENABLED AttemptStart)
  /\ spc = "loopTest" =>
       (Len(attemptLog) = attempt
          /\ \A k \in 1..Len(attemptLog) : attemptLog[k] \in Unsuccessful)
  /\ spc = "exit1" =>
       /\ attempt = 3
       /\ Len(attemptLog) = 3
       /\ \A k \in 1..3 : attemptLog[k] \in Unsuccessful

\* the script has exited with status 1 after an attempt that threw, one
\* that was not passed and one that passed but could not be saved
C16_Witness ==
  /\ spc = "exit1"
  /\ attemptLog[1] = "threw"
  /\ attemptLog[2] = "notPassed"
  /\ attemptLog[3] = "passedThrew"

\* C17: evaluateWithOllama gives one answer per challenge, in challenge
\* order, each with choice 0 or 1; a challenge is asked once, or twice when
\* the first call failed with a 429 error; a challenge whose last call
\* failed is answered 0; the answers returned are as many as the challenges.
C17_OneAnswerPerChallenge ==
  spc \in {"evaluate", "submitResponses"} =>
    /\ Len(regAnswers) = (IF epc = "retry" THEN idx - 1 ELSE Len(llmLog))
    /\ Len(regAnswers) <= Len(challenges)
    /\ spc = "submitResponses" => Len(regAnswers) = Len(challenges)
    /\ \A k \in 1..Len(regAnswers) :
         /\ regAnswers[k].challenge_id = challenges[k]
         /\ regAnswers[k].choice \in {0, 1}
         /\ Len(llmLog[k]) \in {1, 2}
         /\ Len(llmLog[k]) = 2 <=> llmLog[k][1] = "fail429"
         /\ llmLog[k][Len(llmLog[k])] # "ok" => regAnswers[k].choice = 0
    /\ \A k \in 1..Len(llmLog) : Len(llmLog[k]) <= 2

\* two challenges evaluated: the first was rate limited and answered 1 on
\* the second call, the second was rate limited twice
C17_Witness ==
  /\ spc = "submitResponses"
  /\ Len(challenges) = 2
  /\ llmLog = <<<<"fail429", "ok">>, <<"fail429", "fail429">>>>
  /\ regAnswers[1].choice = 1
  /\ regAnswers[2].choice = 0

\* an oracle call of the round is outstanding
Awaiting == pc \in {"awaitRank", "awaitCompare"}

\* C21: within a round an oracle call is issued only while none is
\* outstanding, and as the call of pair k+1 only once the calls of the pairs
\* up to k have come back; while a call is outstanding nothing happens but
\* its coming back; the result is computed only when no call is outstanding
\* and, in a tournament, all 2n calls have come back.
C21_OneCallAtATime ==
  [][/\ oracleLog' # oracleLog =>
          /\ ~Awaiting
          /\ Awaiting'
          /\ Len(oracleLog') = Len(oracleLog) + 1
          /\ SubSeq(oracleLog', 1, Len(oracleLog)) = oracleLog
          /\ pc' = "awaitCompare" => Len(oracleLog') = pairIdx'
     /\ Awaiting =>
          /\ oracleLog' = oracleLog
          /\ ~Awaiting'
          /\ resp' # NoResp
          /\ pc = "awaitCompare" => pairIdx' = pairIdx + 1
     /\ (pc # "returned" /\ pc' = "returned" /\ Len(answers) > DirectMax) =>
          /\ pc = "pairs"
          /\ pairIdx = 2 * Len(answers) + 1
          /\ Len(oracleLog) = 2 * Len(answers)]_vars

\* the last call of a tournament is outstanding, the others have come back
C21_Witness ==
  /\ pc = "awaitCompare"
  /\ Len(oracleLog) = 2 * Len(answers)
  /\ pairIdx = 2 * Len(answers)
  /\ \E k \in 1..Len(winCounts) : winCounts[k].wins > 0

RECURSIVE SumWins(_)
SumWins(wc) == IF wc = <<>> THEN 0 ELSE Head(wc).wins + SumWins(Tail(wc))

\* the comparisons of the round that have come back
Completed == IF pc \in {"pairs", "awaitCompare", "returned"} THEN pairIdx - 1 ELSE 0

\* C30: throughout a tournament round over distinct ids every win count is
\* between 0 and 4, the counts sum to no more than the number of comparisons
\* that have come back, which is at most 2n, and no count ever decreases.
C30_WinCountBounds ==
  /\ [](IsDistinct(answers) =>
          /\ \A k \in 1..Len(winCounts) : winCounts[k].wins \in 0..4
          /\ SumWins(winCounts) <= Completed
          /\ Completed <= 2 * Len(answers))
  /\ [][\A k \in 1..Len(winCounts) :
          /\ Len(winCounts') = Len(winCounts)
          /\ winCounts'[k].id = winCounts[k].id
          /\ winCounts'[k].wins >= winCounts[k].wins]_vars

\* a tournament has returned with every comparison decided and one
\* candidate the winner of all four it took part in
C30_Witness ==
  /\ ViaTournament
  /\ SumWins(winCounts) = 2 * Len(answers)
  /\ \E k \in 1..Len(winCounts) : winCounts[k].wins = 4

\* C25: once the server has reported an attempt passed, no other attempt is
\* started in the run: the attempt that passed is the last one begun,
\* whether the steps after the pass went through or threw.
C25_NoAttemptAfterPass ==
  \A k \in 1..Len(attemptLog) :
    attemptLog[k] \in {"passed", "passedThrew"} => attempt = k

\* C23: an attempt of a request that follows a 401 after which the refresh,
\* or the login made when the refresh failed, succeeded carries the access
\* token obtained then in its Authorization header.
C23_RetryCarriesNewToken ==
  \A k \in 1..(Len(apiLog) - 1) :
    (apiLog[k].got.kind = "response" /\ apiLog[k].got.status = 401
       /\ apiLog[k].renewed) =>
      apiLog[k + 1].auth = Bearer(apiLog[k].token)

\* the attempt ended in a way that makes the loop try again
TriedAgain(e) ==
  e.got.kind = "throw" \/ (e.got.kind = "response" /\ Retried(e.got.status))

\* C24: apiRequest sends at most retries attempts of the request, and every
\* 401, 429, 5xx response or throw uses one up; it always ends by returning:
\* the error object of the status for an error status that is not tried
\* again, at once; the parsed value for an ok response; status 0 with "Max
\* retries exceeded" when the last attempt too got a response that is tried
\* again, and status 0 with the error's message when it threw.
C24_BoundedAttemptsAlwaysReturns ==
  /\ Len(apiLog) <= retries
  /\ apc = "loopTest" =>
       /\ Len(apiLog) = apiAttempt - 1
       /\ \A k \in 1..Len(apiLog) : TriedAgain(apiLog[k])
  /\ apc \in {"fetch", "refresh", "login"} => Len(apiLog) = apiAttempt
  /\ apc = "returned" <=> apiResult # NoResult
  /\ apc = "returned" =>
       LET n == Len(apiLog)
           last == apiLog[n].got
       IN  /\ n >= 1
           /\ \A k \in 1..(n - 1) : TriedAgain(apiLog[k])
           /\ IF last.kind = "throw"
              THEN n = retries /\ apiResult = Err(0, last.message)
              ELSE IF Retried(last.status)
              THEN n = retries /\ apiResult = Err(0, "Max retries exceeded")
              ELSE IF ~Ok(last.status)
              THEN apiResult = Err(last.status, last.text)
              ELSE apiResult = Value(last.text)

\* apiRequest has returned "Max retries exceeded" after a 401 followed by a
\* successful refresh, a 429 and a 5xx
C24_Witness ==
  /\ apc = "returned"
  /\ apiResult = Err(0, "Max retries exceeded")
  /\ Len(apiLog) = 3
  /\ apiLog[1].got.kind = "response" /\ apiLog[1].got.status = 401
  /\ apiLog[1].renewed
  /\ apiLog[2].got.kind = "response" /\ apiLog[2].got.status = 429
  /\ apiLog[3].got.kind = "response" /\ apiLog[3].got.status = 500

\* the requests made for the item scanned in this step
IssuedNow == scanned'.issued
NowPending == scanned'.fun = "pending"
NowActive == scanned'.fun = "active"

\* C26: no challenge id gets a second vote that the server accepts; a
\* challenge id enters judgedChallengeIds only in a step in which its vote
\* came back without error or its eligibility came back with has_voted;
\* judgedChallengeIds never loses an id; no eligibility, join or vote request
\* is made for a challenge id that is in judgedChallengeIds.
C26_OneVotePerChallenge ==
  [][/\ NowPending =>
          \A k \in 1..Len(IssuedNow) :
            LET e == IssuedNow[k]
            IN  /\ (e.req = "vote" /\ e.res \in {"ok", "null"}) => e.id \notin okVotes
                /\ e.req \in {"eligibility", "join", "vote"} =>
                     e.id \notin judgedChallengeIds
     /\ \A c \in judgedChallengeIds' \ judgedChallengeIds :
          /\ NowPending
          /\ \E k \in 1..Len(IssuedNow) :
               /\ IssuedNow[k].id = c
               /\ \/ IssuedNow[k].req = "vote" /\ IssuedNow[k].res = "ok"
                  \/ IssuedNow[k].req = "eligibility" /\ IssuedNow[k].res = "voted"
     /\ judgedChallengeIds \subseteq judgedChallengeIds']_vars

\* C27: no answer the server accepts is posted to a query that already has
\* one, and no vote is posted on a challenge of a query the bot has an
\* accepted answer to; no join or vote request is made for a challenge whose
\* query_id is in answeredQueryIds; no join or answer request is made for a
\* query whose id is in answeredQueryIds, that is the bot's own, or that the
\* server flags has_answered or has_joined; answeredQueryIds never loses an
\* id.
C27_NeverJudgesOwnNeverAnswersTwice ==
  [][/\ NowPending =>
          \A k \in 1..Len(IssuedNow) :
            IssuedNow[k].req \in {"join", "vote"} =>
              /\ scanned'.item.query_id \notin answeredQueryIds
              /\ IssuedNow[k].req = "vote" => scanned'.item.query_id \notin okAnswers
     /\ NowActive =>
          \A k \in 1..Len(IssuedNow) :
            IssuedNow[k].req \in {"join", "answer"} =>
              /\ scanned'.item.id \notin answeredQueryIds
              /\ ~scanned'.item.own
              /\ ~scanned'.item.flagged
              /\ (IssuedNow[k].req = "answer" /\ IssuedNow[k].res \in {"ok", "null"}) =>
                   scanned'.item.id \notin okAnswers
     /\ answeredQueryIds \subseteq answeredQueryIds']_vars

\* C28: in a cycle at most one vote and at most one answer are posted; an
\* item for which a post was made, whatever came back, ends the scan of its
\* list with the items left unscanned; an item that is skipped has no post
\* and is followed by the next item of the list.
C28_OnePostPerCycle ==
  /\ [](posted.votes <= 1 /\ posted.answers <= 1)
  /\ [][/\ (scanned' # NoScan /\ scanned'.end = "continue") =>
             /\ Posts(IssuedNow, "vote") = <<>>
             /\ Posts(IssuedNow, "answer") = <<>>
        /\ (scanned' # NoScan /\ Len(Posts(IssuedNow, "vote")) + Len(Posts(IssuedNow, "answer")) > 0) =>
             scanned'.end \in {"break", "throw"}
        /\ (scanned # NoScan /\ scanned.end = "continue") =>
             (sfun' = sfun /\ remaining' = remaining - 1)
        /\ (scanned # NoScan /\ scanned.end # "continue") =>
             (sfun' # sfun /\ remaining' = 0)]_vars

\* an answer has been posted with an item of the list left, in a cycle in
\* which a vote was posted too
C28_Witness ==
  /\ sfun = "active"
  /\ scanned # NoScan
  /\ scanned.end = "break"
  /\ remaining = 2
  /\ posted = [votes |-> 1, answers |-> 1]

\* a is a number, b is a number and a is at least b
Ge(a, b) == ~a.nan /\ ~b.nan /\ a.tenths >= b.tenths

\* the stake of the item scanned and the margin asked on top of it
StakeOf(s) ==
  IF s.fun = "pending" THEN RankingStake(s.item) ELSE AnswerStake(s.item)
MarginOf(s) == IF s.fun = "pending" THEN 50 ELSE 100

\* C29: a join request for a query or a challenge comes right after a
\* balance check that returned a balance whose available is at least the
\* stake of the item plus 10 for a query, plus 5 for a challenge.
C29_JoinOnlyWithBalance ==
  scanned # NoScan =>
    \A k \in 1..Len(scanned.issued) :
      scanned.issued[k].req = "join" =>
        /\ k > 1
        /\ scanned.issued[k - 1].req = "balance"
        /\ scanned.issued[k - 1].res = "ok"
        /\ Ge(scanned.issued[k - 1].available,
              Plus(StakeOf(scanned), MarginOf(scanned)))


\* the module-level variables of bot.ts the claim names
ModuleLevel ==
  <<accessToken, refreshToken, answeredQueryIds, judgedChallengeIds,
    submittedQueryIds, QUERY_QUEUE, queriesAskedThisSession>>

\* pairwiseJudge is running
InRound == pc \notin {"returned", "thrown"}

\* C22: a ranking round keeps no state across rounds: no step of
\* pairwiseJudge or directRank changes a module-level variable, and a second
\* round on the same candidate list with the same oracle answers comes back
\* with what the first round came back with, whatever the first round left
\* behind and whatever the bot recorded in between.
C22_NoCrossRoundState ==
  /\ [][InRound => UNCHANGED ModuleLevel]_vars
  /\ []((~InRound /\ first # NoMemo) => Outcome = first)

\* the second of two tournaments has come back with a ranking the tally
\* decided, after the bot recorded the challenge and logged in
C22_Witness ==
  /\ first # NoMemo
  /\ ViaTournament
  /\ rankings # Sorted(ZeroCounts(answers))
  /\ judgedChallengeIds # {}
  /\ accessToken = "tok"


\* C31: for a candidate list of distinct ids, the goodAnswers pairwiseJudge
\* returns holds no id twice, whatever the oracle answered.
C31_GoodNoDuplicate ==
  (Returned /\ IsDistinct(answers)) => IsDistinct(goodAnswers)


\* a call of submitNextQuery ends with this step
CallEnds == qcall' # qcall /\ qpc' = "idle"

====
